---- MODULE Spec2Model ----
(***************************************************************************)
(* A model of the streaming session layer of IMBotCore's WeCom platform:   *)
(* SessionManager (CreateOrGet, Publish, Accumulate, Consume,              *)
(* MarkFinished, Cleanup) and the Bot operations built on it               *)
(* (pushStreamChunk, SetFinalMessage, Refresh).                            *)
(*                                                                         *)
(* Every Go call is a small state machine run by a process: one step per   *)
(* critical section (a sync.Mutex / sync.RWMutex section holds no blocking *)
(* operation, so it is one atomic step) and one step per channel           *)
(* operation.  Strings are sequences of characters, a *StreamChunk is a    *)
(* sequence of length 0 (nil) or 1, a *Session is its stream id (stream    *)
(* ids are unique and never reused) or 0 for nil, "" for an id is 0 for a  *)
(* stream id and "" for a msg id.                                          *)
(***************************************************************************)
EXTENDS Integers, Sequences, FiniteSets, TLC

\* ---------------------------------------------------------------- bounds
\* Number of CreateOrGet calls, hence of sessions ever allocated.
MaxCreateCalls == 2
\* The clock runs from 0 to MaxTime.
MaxTime == 2
\* Number of Publish / Accumulate / pushStreamChunk calls of a run.
MaxAppends == 2
\* Number of Refresh replies recorded after the first push of a final chunk.
MaxLog == 2

\* ------------------------------------------------------ program constants
\* make(chan botcore.StreamChunk, 16)
QueueCap == 16
\* SessionManager.ttl, the value NewSessionManager was given, in clock ticks.
TTL == 1

Threads == {"t1", "t2"}
MsgIDs == {"m1"}
\* The keys Bot.fallback (a sync.Map) can hold: any string, the empty one too
FallbackKeys == MsgIDs \cup {""}
StreamIDs == 1..MaxCreateCalls
Chars == {"a", "b"}
\* The contents a caller passes: the empty string and two one-letter strings.
Contents == {<<>>} \cup {<<c>> : c \in Chars}
NoPayload == "nil"
\* botcore.NoResponse, and some other payload object
NoResponse == "NoResponse"
Card == "card"

\* botcore.StreamChunk
StreamChunk(content, isFinal, payload) ==
    [Content |-> content, IsFinal |-> isFinal, Payload |-> payload]

TextChunks == {StreamChunk(c, f, NoPayload) : c \in Contents, f \in BOOLEAN}

Nil == <<>>
Ptr(x) == <<x>>
Deref(p) == p[1]

\* strings.HasPrefix(t, s)
IsPrefix(s, t) == Len(s) <= Len(t) /\ SubSeq(t, 1, Len(s)) = s

RECURSIVE Flatten(_)
\* The concatenation of a sequence of strings.
Flatten(ss) == IF ss = <<>> THEN <<>> ELSE Head(ss) \o Flatten(Tail(ss))

\* ----------------------------------------------------------------- state
VARIABLES
    sessions,   \* SessionManager.sessions: the stream ids that are keys of the map
    msgIndex,   \* SessionManager.msgIndex: msg id -> stream id, 0 when absent
    sess,       \* the Session objects ever allocated, by stream id
    nextID,     \* the next stream id generateStreamID returns
    now,        \* time.Now()
    fallback,   \* Bot.fallback: msg id -> *StreamChunk
    pc,         \* each process's position in the call it runs
    fr,         \* each process's arguments, locals and return values
    appended,   \* history: per session, the contents appended, in lock order
    calls,      \* history: [create, append]: the calls started so far
    marked,     \* history: the sessions a MarkFinished call has marked
    outCh,      \* the channel Manager.Trigger returned: the chunks buffered in it
    cmd,        \* the command Trigger executes: what it has still to do, and its result
    once,       \* signalOnce: whether its function has run, and who holds its mutex
    chState,    \* where Trigger's goroutine is: "none" before Trigger, ..., "closed"
    emitted,    \* history: the chunks sent to the channel, in order
    first,      \* history: the chunk Initial received in its 200ms window
    scn,        \* history: the first pushStreamChunk call with a final chunk
    log,        \* history: the first MaxLog replies, after that call, to Refresh
                \*          callbacks with its msg id and a non-empty stream id
    finishSeen, \* history: a Refresh reply after that call carried finish = true
    parse,      \* a Parser, the text given to its Parse and what Parse returned
    run,        \* the Manager.Trigger calls: each one's goroutine, channel and locals
    trees,      \* the command trees the factory builds, by the call it builds them for
    writer,     \* a StreamWriter: its channel (capacity 0: not made yet), and the history of its writes
    data,       \* MemoryStore.data: conversation key -> the map stored for it
    heap,       \* the ContextValues maps allocated so far; a map's id is its index
    held,       \* the maps callers hold: made by them or returned by Load
    saves,      \* the Save calls so far: key and the values passed
    last,       \* the latest MemoryStore call and what it returned
    bot,        \* Bot.Adapter and Bot.Pipeline: what the Bot was built with
    crypt,      \* Bot.Crypto: a Crypt call, what it was given and what it returned
    tally,      \* history: how often the fallback cache was written and read
    exec        \* command executions of two updates: their ExecutionContexts and the store

vars == <<sessions, msgIndex, sess, nextID, now, fallback, pc, fr,
          outCh, cmd, once, chState, emitted, first, appended, calls, marked, scn, log, finishSeen,
          parse, run, trees, writer, data, heap, held, saves, last, bot, crypt, tally, exec>>
mgrVars == <<sessions, msgIndex, nextID>>
histVars == <<marked, scn, log, finishSeen>>
pipeVars == <<outCh, cmd, once, chState, emitted, first>>
\* The state of the command package: its parser and its manager.
storeVars == <<data, heap, held, saves, last>>
cmdVars == <<parse, run, trees, writer, storeVars>>
\* The Bot's configuration.
cfgVars == <<bot, crypt, exec>>
tallyVars == <<tally>>

\* Nothing was cached and nothing read from the cache yet.
NoTally ==
    [stored |-> [m \in FallbackKeys |-> 0], returned |-> [m \in FallbackKeys |-> 0]]

\* No command: Trigger has not been called.
NoCommand == [kind |-> "none", events |-> <<>>, err |-> FALSE, next |-> 1, go |-> <<>>]

\* var signalOnce sync.Once: its function has not run, nobody holds its mutex
\* (0; 1 is Trigger's goroutine, 1 + g the command's goroutine g)
NewOnce == [done |-> FALSE, m |-> 0]

\* botcore.Update{}, and an update the adapter made of a message
ZeroUpdate == "Update{}"
\* The update the adapter makes of the message.
MessageUpdate == "u1"
Updates == {ZeroUpdate, MessageUpdate}

\* Session, as NewSessionManager / CreateOrGet leave it.
NewSession(msgID, t) ==
    [MsgID |-> msgID, LastAccess |-> t, queue |-> <<>>, Finished |-> FALSE,
     LastChunk |-> Nil, LastChunkRef |-> "none", Accumulated |-> <<>>,
     Update |-> ZeroUpdate]

\* The locals of a process that runs no call.
Frame0 ==
    [op |-> "none", sid |-> 0, msg |-> "", chunk |-> StreamChunk(<<>>, FALSE, NoPayload),
     sp |-> 0, full |-> Nil, latest |-> Nil, finalSeen |-> FALSE, cnow |-> 0,
     ret |-> Nil, ok |-> FALSE, isNew |-> FALSE, reply |-> Nil,
     timedOut |-> FALSE, afterMark |-> FALSE, live |-> FALSE,
     initialChunk |-> StreamChunk(<<>>, FALSE, NoPayload), err |-> "nil",
     before |-> <<>>, req |-> Nil, resp |-> Nil, delivered |-> "dropped",
     update |-> Nil]

Idle(p) == pc[p] \in {"idle", "done"}

\* No Parse call has been made.
NoParse == parse = Nil

\* No call of the Crypt has been made.
NoCrypt == crypt = Nil

\* No command execution has been set up.
NoExec == exec = Nil

\* Number of concurrent Manager.Trigger calls.
MaxCalls == 2
TriggerCalls == 1..MaxCalls

\* The locals of a Trigger call that has not been made, on a Manager that
\* NewManager built with a factory (factory: m.factory of the call's Manager).
NoRun ==
    [state |-> "none", text |-> <<>>, parsed |-> Nil, rootCmd |-> 0, args |-> <<>>,
     out |-> <<>>, sent |-> <<>>, once |-> FALSE, err |-> FALSE,
     factoryCalls |-> 0, loads |-> 0, factory |-> "set"]

\* The conversation keys: the empty one and another.
StoreKeys == {"", "k"}

\* NewMemoryStore: nothing stored (0: no map), and no call made yet
NewMemoryStore ==
    /\ data = [k \in StoreKeys |-> 0]
    /\ heap = <<>>
    /\ held = {}
    /\ saves = <<>>
    /\ last = [op |-> "none", key |-> "", id |-> 0, n |-> 0]

\* No Trigger call has been made on the manager NewManager returned.
NoTrigger ==
    /\ NewMemoryStore
    /\ writer = [cap |-> 0, Ch |-> <<>>, written |-> <<>>, received |-> <<>>]
    /\ run = [c \in TriggerCalls |-> NoRun]
    /\ trees = [c \in TriggerCalls |-> [out |-> 0, args |-> <<>>, flag |-> <<>>]]

\* The bot as NewSessionManager and the Bot's construction leave it; no pipeline
\* has been triggered and no process runs a call.
NewSessions ==
    /\ sessions = {}
    /\ msgIndex = [m \in MsgIDs |-> 0]
    /\ sess = [s \in StreamIDs |-> NewSession("", 0)]
    /\ nextID = 1
    /\ now = 0
    /\ fallback = [m \in FallbackKeys |-> Nil]
    /\ tally = NoTally
    /\ outCh = <<>> /\ cmd = NoCommand /\ once = NewOnce /\ chState = "none"
    /\ emitted = <<>> /\ first = Nil
    /\ pc = [p \in Threads |-> "idle"]
    /\ fr = [p \in Threads |-> Frame0]
    /\ appended = [s \in StreamIDs |-> <<>>]
    /\ calls = [create |-> 0, append |-> 0]
    /\ marked = {}
    /\ scn = Nil
    /\ log = <<>>
    /\ finishSeen = FALSE

\* NewBot(crypto, sessionTTL, timeout, pipeline): the default adapter and a pipeline
ConfiguredBot ==
    [Adapter |-> "MessageAdapter", Pipeline |-> "set", Crypto |-> "set", Sessions |-> "set"]
NewBot == NewSessions /\ bot = ConfiguredBot

Init == NewBot /\ NoParse /\ NoTrigger /\ NoCrypt /\ NoExec

\* ------------------------------------------------------------- helpers
\* SessionManager.getSession
getSession(streamID) == IF streamID # 0 /\ streamID \in sessions THEN streamID ELSE 0

\* SessionManager.GetStreamIDByMsg: the stream id, 0 when not found
GetStreamIDByMsg(msgID) == IF msgID = "" THEN 0 ELSE msgIndex[msgID]

\* What a process keeps of a call that returned: the call, the session it
\* found and what the call returned.
Returned(f) ==
    [Frame0 EXCEPT !.op = f.op, !.msg = f.msg, !.sp = f.sp, !.ret = f.ret,
                   !.ok = f.ok, !.isNew = f.isNew, !.reply = f.reply,
                   !.timedOut = f.timedOut, !.afterMark = f.afterMark, !.err = f.err,
                   !.before = f.before, !.req = f.req, !.resp = f.resp,
                   !.delivered = f.delivered,
                   !.update = IF f.op = "GetUpdate" THEN f.update ELSE Nil]

\* What consumePipeline keeps from one iteration of its loop to the next.
NextChunk(f) == [Frame0 EXCEPT !.op = f.op, !.sid = f.sid, !.msg = f.msg]

\* The process goes to label with the locals f.
Land(p, f, label) ==
    /\ pc' = [pc EXCEPT ![p] = label]
    /\ fr' = [fr EXCEPT ![p] = IF label = "done" THEN Returned(f)
                              ELSE IF label = "cpRecv" THEN NextChunk(f) ELSE f]

\* A process starts a call.  The *StreamChunk an earlier Consume returned to
\* it is dropped, so no session shares its LastChunk with the process any
\* more.  Setting up the call's frame touches nothing shared, so the call's
\* first step runs in the same step.
Begin(p) ==
    /\ Idle(p)
    /\ sess' = [s \in StreamIDs |->
                  IF sess[s].LastChunkRef = p
                  THEN [sess[s] EXCEPT !.LastChunkRef = "none"] ELSE sess[s]]

\* Where a process goes when the SessionManager call it runs returns.
AfterPublish(f) == IF f.op \in {"Push", "consumePipeline"} THEN "pushAfterPublish" ELSE "done"
AfterConsume(f) == IF f.op = "Refresh" THEN "refreshAfterConsume" ELSE "done"
AfterMarkFinished(f) ==
    IF f.op = "Refresh" THEN "refreshReply"
    ELSE IF f.op = "consumePipeline" THEN "cpRecv"
    ELSE IF f.op = "Initial"
         THEN IF ~f.ok THEN "initReply"
              ELSE IF f.chunk.Payload = NoResponse THEN "initNoResponse" ELSE "initSpawn"
    ELSE "done"
AfterCreateOrGet(f) == IF f.op = "Initial" THEN "initSetUpdate" ELSE "done"
AfterSetUpdate(f) == IF f.op = "Initial" THEN "initTrigger" ELSE "done"
AfterAccumulate(f) == IF f.op = "Initial" THEN "initAfterAccumulate" ELSE "done"
AfterPush(f) == IF f.op = "consumePipeline" THEN "cpRecv" ELSE "done"

\* ---------------------------------------------------------- CreateOrGet
\* if msg.MsgID != "" { if streamID, ok := m.GetStreamIDByMsg(msg.MsgID); ok {
CreateOrGetIndexMutant(p, f) == Land(p, f, "cogNew")
CreateOrGetIndex(p, f) ==
    LET streamID == GetStreamIDByMsg(f.msg) IN
      IF streamID # 0 THEN Land(p, [f EXCEPT !.sid = streamID], "cogGet")
      ELSE Land(p, f, "cogNew")

CallCreateOrGet(p, msgID, limit) ==
    /\ calls.create < limit
    /\ Begin(p)
    /\ CreateOrGetIndex(p, [Frame0 EXCEPT !.op = "CreateOrGet", !.msg = msgID])
    /\ calls' = [calls EXCEPT !.create = @ + 1]
    /\ UNCHANGED <<cfgVars, cmdVars, tallyVars, pipeVars, mgrVars, now, fallback, appended, histVars>>

\* existing = m.getSession(streamID)
CreateOrGetLookup(p) ==
    /\ pc[p] = "cogGet"
    /\ LET existing == getSession(fr[p].sid) IN
         Land(p, [fr[p] EXCEPT !.sp = existing], IF existing # 0 THEN "cogTouch" ELSE "cogNew")
    /\ UNCHANGED <<cfgVars, cmdVars, tallyVars, pipeVars, mgrVars, sess, now, fallback, appended, calls, histVars>>

\* existing.touch(); return existing, false
CreateOrGetTouch(p) ==
    /\ pc[p] = "cogTouch"
    /\ sess' = [sess EXCEPT ![fr[p].sp].LastAccess = now]
    /\ Land(p, [fr[p] EXCEPT !.isNew = FALSE], AfterCreateOrGet(fr[p]))
    /\ UNCHANGED <<cfgVars, cmdVars, tallyVars, pipeVars, mgrVars, now, fallback, appended, calls, histVars>>

\* streamID := generateStreamID(); session := &Session{...}
CreateOrGetNew(p) ==
    /\ pc[p] = "cogNew"
    /\ nextID \in StreamIDs
    /\ sess' = [sess EXCEPT ![nextID] = NewSession(fr[p].msg, now)]
    /\ nextID' = nextID + 1
    /\ Land(p, [fr[p] EXCEPT !.sp = nextID, !.sid = nextID], "cogInsert")
    /\ UNCHANGED <<cfgVars, cmdVars, tallyVars, pipeVars, sessions, msgIndex, now, fallback, appended, calls, histVars>>

\* m.sessions[streamID] = session; if msg.MsgID != "" { m.msgIndex[msg.MsgID] = streamID }
\* return session, true
CreateOrGetInsert(p) ==
    /\ pc[p] = "cogInsert"
    /\ sessions' = sessions \cup {fr[p].sp}
    /\ msgIndex' = IF fr[p].msg # "" THEN [msgIndex EXCEPT ![fr[p].msg] = fr[p].sp]
                   ELSE msgIndex
    /\ Land(p, [fr[p] EXCEPT !.isNew = TRUE], AfterCreateOrGet(fr[p]))
    /\ UNCHANGED <<cfgVars, cmdVars, tallyVars, pipeVars, sess, nextID, now, fallback, appended, calls, histVars>>

CreateOrGet(p) ==
    \/ CreateOrGetLookup(p) \/ CreateOrGetTouch(p) \/ CreateOrGetNew(p)
    \/ CreateOrGetInsert(p)

\* -------------------------------------------------------------- Publish
\* session.Accumulated += chunk.Content
AppendContentMutant(accumulated, content) == content
AppendContent(accumulated, content) == accumulated \o content

\* fullChunk := chunk; fullChunk.Content = session.Accumulated
SnapshotMutant(chunk, accumulated) == chunk
Snapshot(chunk, accumulated) == [chunk EXCEPT !.Content = accumulated]

\* session := m.getSession(streamID); if session == nil { return false }
PublishGet(p, f) ==
    LET session == getSession(f.sid) IN
      IF session = 0 THEN Land(p, [f EXCEPT !.ok = FALSE], AfterPublish(f))
      ELSE Land(p, [f EXCEPT !.sp = session], "pubLock")

CallPublish(p, streamID, chunk, limit) ==
    /\ calls.append < limit
    /\ Begin(p)
    /\ PublishGet(p, [Frame0 EXCEPT !.op = "Publish", !.sid = streamID, !.chunk = chunk])
    /\ calls' = [calls EXCEPT !.append = @ + 1]
    /\ UNCHANGED <<cfgVars, cmdVars, tallyVars, pipeVars, mgrVars, now, fallback, appended, histVars>>

\* session.mu.Lock() ... session.LastChunk = &fullChunk ... session.mu.Unlock()
\* (until it has sent fullChunk, the publisher shares the variable with the session)
PublishLock(p) ==
    /\ pc[p] = "pubLock"
    /\ LET s == fr[p].sp
           acc == AppendContent(sess[s].Accumulated, fr[p].chunk.Content)
           fullChunk == Snapshot(fr[p].chunk, acc)
       IN /\ sess' = [sess EXCEPT ![s].LastAccess = now,
                                  ![s].Accumulated = acc,
                                  ![s].LastChunk = Ptr(fullChunk),
                                  ![s].LastChunkRef = p]
          /\ Land(p, [fr[p] EXCEPT !.full = Ptr(fullChunk)], "pubSend")
          /\ appended' = [appended EXCEPT ![s] = Append(@, fr[p].chunk.Content)]
    /\ UNCHANGED <<cfgVars, cmdVars, tallyVars, pipeVars, mgrVars, now, fallback, calls, histVars>>

PublishTrySendMutant(p) ==
    /\ pc[p] = "pubSend"
    /\ sess' = sess
    /\ Land(p, fr[p], "pubFin")
    /\ UNCHANGED <<cfgVars, cmdVars, tallyVars, pipeVars, mgrVars, now, fallback, appended, calls, histVars>>

\* The publisher has read fullChunk for the last time: the session's
\* LastChunk is shared with nobody, unless another call replaced it meanwhile.
Unshared(session, p) ==
    [session EXCEPT !.LastChunkRef = IF @ = p THEN "none" ELSE @]

\* select { case session.queue <- fullChunk: default: ... }
\* (fullChunk is read now: fr[p].full holds what the read yields)
PublishTrySend(p) ==
    /\ pc[p] = "pubSend"
    /\ LET s == fr[p].sp IN
         IF Len(sess[s].queue) < QueueCap
         THEN /\ sess' = [sess EXCEPT ![s] = Unshared([@ EXCEPT !.queue =
                                                        Append(@, Deref(fr[p].full))], p)]
              /\ Land(p, fr[p], "pubFin")
         ELSE /\ sess' = sess
              /\ Land(p, fr[p], "pubBlockedSend")
    /\ UNCHANGED <<cfgVars, cmdVars, tallyVars, pipeVars, mgrVars, now, fallback, appended, calls, histVars>>

\* default: session.queue <- fullChunk     (a blocking send)
PublishBlockedSend(p) ==
    /\ pc[p] = "pubBlockedSend"
    /\ Len(sess[fr[p].sp].queue) < QueueCap
    /\ sess' = [sess EXCEPT ![fr[p].sp] = Unshared([@ EXCEPT !.queue =
                                                     Append(@, Deref(fr[p].full))], p)]
    /\ Land(p, fr[p], "pubFin")
    /\ UNCHANGED <<cfgVars, cmdVars, tallyVars, pipeVars, mgrVars, now, fallback, appended, calls, histVars>>

\* Session.setFinished
setFinished(session, t) == [session EXCEPT !.Finished = TRUE, !.LastAccess = t]

\* if finished { session.setFinished() }; return true
PublishFinish(p) ==
    /\ pc[p] = "pubFin"
    /\ sess' = IF Deref(fr[p].full).IsFinal
               THEN [sess EXCEPT ![fr[p].sp] = setFinished(@, now)]
               ELSE sess
    /\ Land(p, [fr[p] EXCEPT !.ok = TRUE], AfterPublish(fr[p]))
    /\ UNCHANGED <<cfgVars, cmdVars, tallyVars, pipeVars, mgrVars, now, fallback, appended, calls, histVars>>

Publish(p) == PublishLock(p) \/ PublishTrySend(p) \/ PublishFinish(p)

\* ----------------------------------------------------------- Accumulate
\* session := m.getSession(streamID); if session == nil { return false }
AccumulateGet(p, f) ==
    LET session == getSession(f.sid) IN
      IF session = 0
      THEN Land(p, IF AfterAccumulate(f) = "done" THEN [f EXCEPT !.ok = FALSE] ELSE f,
                AfterAccumulate(f))
      ELSE Land(p, [f EXCEPT !.sp = session], "accLock")

CallAccumulate(p, streamID, content, limit) ==
    /\ calls.append < limit
    /\ Begin(p)
    /\ AccumulateGet(p, [Frame0 EXCEPT !.op = "Accumulate", !.sid = streamID,
                                       !.chunk = StreamChunk(content, FALSE, NoPayload)])
    /\ calls' = [calls EXCEPT !.append = @ + 1]
    /\ UNCHANGED <<cfgVars, cmdVars, tallyVars, pipeVars, mgrVars, now, fallback, appended, histVars>>

\* The caller's locals when Accumulate returned true (inside Initial the
\* receive's ok is a different variable and stays as it is).
AccumulateReturn(f) == IF AfterAccumulate(f) = "done" THEN Returned([f EXCEPT !.ok = TRUE]) ELSE f

\* The process is a publisher between its locked section and its send: its
\* fullChunk is the chunk session.LastChunk points to.
HoldsFullChunk(q) == pc[q] \in {"pubSend", "pubBlockedSend"}

\* session.mu.Lock() ... session.mu.Unlock(); return true.  The write through
\* session.LastChunk also changes the chunk of the process that shares it: the
\* chunk a Consume returned to it, or the fullChunk of a Publish that has not
\* sent it yet.  The publisher reads fullChunk without the lock, a data race:
\* its read yields the new content or the old one.
AccumulateLock(p) ==
    /\ pc[p] = "accLock"
    /\ LET s == fr[p].sp
           acc == AppendContent(sess[s].Accumulated, fr[p].chunk.Content)
           ref == sess[s].LastChunkRef
       IN /\ IF sess[s].LastChunk # Nil
             THEN /\ sess' = [sess EXCEPT ![s].LastAccess = now,
                                          ![s].Accumulated = acc,
                                          ![s].LastChunk = Ptr([Deref(@) EXCEPT !.Content = acc])]
                  /\ \E seen \in IF ref \in Threads \ {p} /\ HoldsFullChunk(ref)
                                 THEN BOOLEAN ELSE {TRUE} :
                       fr' = [q \in Threads |->
                                IF q = p THEN AccumulateReturn(fr[q])
                                ELSE IF q = ref /\ HoldsFullChunk(q)
                                     THEN IF seen
                                          THEN [fr[q] EXCEPT !.full = Ptr([Deref(@) EXCEPT !.Content = acc])]
                                          ELSE fr[q]
                                ELSE IF q = ref /\ fr[q].ret # Nil
                                     THEN [fr[q] EXCEPT !.ret = Ptr([Deref(@) EXCEPT !.Content = acc])]
                                     ELSE fr[q]]
             ELSE /\ sess' = [sess EXCEPT ![s].LastAccess = now,
                                          ![s].Accumulated = acc,
                                          ![s].LastChunk = Ptr(StreamChunk(acc, FALSE, NoPayload)),
                                          ![s].LastChunkRef = "none"]
                  /\ fr' = [fr EXCEPT ![p] = AccumulateReturn(fr[p])]
          /\ appended' = [appended EXCEPT ![s] = Append(@, fr[p].chunk.Content)]
    /\ pc' = [pc EXCEPT ![p] = AfterAccumulate(fr[p])]
    /\ UNCHANGED <<cfgVars, cmdVars, tallyVars, pipeVars, mgrVars, now, fallback, calls, histVars>>

Accumulate(p) == AccumulateLock(p)

\* -------------------------------------------------------------- Consume
\* session := m.getSession(streamID); if session == nil { return nil }
ConsumeGet(p, f) ==
    LET session == getSession(f.sid) IN
      IF session = 0 THEN Land(p, [f EXCEPT !.ret = Nil], AfterConsume(f))
      ELSE Land(p, [f EXCEPT !.sp = session], "conTouch")

CallConsume(p, streamID) ==
    /\ Begin(p)
    /\ ConsumeGet(p, [Frame0 EXCEPT !.op = "Consume", !.sid = streamID,
                                    !.afterMark = streamID \in marked])
    /\ UNCHANGED <<cfgVars, cmdVars, tallyVars, pipeVars, mgrVars, now, fallback, appended, calls, histVars>>

ConsumeTouchMutant(p) ==
    /\ pc[p] = "conTouch"
    /\ Land(p, fr[p], "conSelect")
    /\ UNCHANGED <<cfgVars, cmdVars, tallyVars, pipeVars, mgrVars, sess, now, fallback, appended, calls, histVars>>

\* session.touch()
ConsumeTouch(p) ==
    /\ pc[p] = "conTouch"
    /\ sess' = [sess EXCEPT ![fr[p].sp].LastAccess = now]
    /\ Land(p, fr[p], "conSelect")
    /\ UNCHANGED <<cfgVars, cmdVars, tallyVars, pipeVars, mgrVars, now, fallback, appended, calls, histVars>>

\* case firstChunk := <-session.queue: latestChunk := firstChunk; finalSeen := firstChunk.IsFinal
ConsumeReceive(p) ==
    /\ pc[p] = "conSelect"
    /\ sess[fr[p].sp].queue # <<>>
    /\ LET firstChunk == Head(sess[fr[p].sp].queue) IN
         Land(p, [fr[p] EXCEPT !.latest = Ptr(firstChunk), !.finalSeen = firstChunk.IsFinal],
              "conDrain")
    /\ sess' = [sess EXCEPT ![fr[p].sp].queue = Tail(@)]
    /\ UNCHANGED <<cfgVars, cmdVars, tallyVars, pipeVars, mgrVars, now, fallback, appended, calls, histVars>>

\* case <-timer.C:   the timer runs from time.NewTimer, before session.touch(),
\* for a timeout the caller chose: it may have fired when the select is
\* reached, and the select then takes either case when a chunk is queued
ConsumeTimerFires(p) ==
    /\ pc[p] = "conSelect"
    /\ Land(p, fr[p], "conTimeout")
    /\ UNCHANGED <<cfgVars, cmdVars, tallyVars, pipeVars, mgrVars, sess, now, fallback, appended, calls, histVars>>

ConsumeDrainMutant(p) ==
    /\ pc[p] = "conDrain"
    /\ LET q == sess[fr[p].sp].queue IN
         IF q # <<>>
         THEN /\ Land(p, [fr[p] EXCEPT !.latest = Ptr(Head(q))], "conDrain")
              /\ sess' = [sess EXCEPT ![fr[p].sp].queue = Tail(@)]
         ELSE /\ Land(p, fr[p], "conUpdate")
              /\ sess' = sess
    /\ UNCHANGED <<cfgVars, cmdVars, tallyVars, pipeVars, mgrVars, now, fallback, appended, calls, histVars>>

\* for !drained { select { case nextChunk := <-session.queue: ... default: drained = true } }
\* if finalSeen { latestChunk.IsFinal = true }
ConsumeDrain(p) ==
    /\ pc[p] = "conDrain"
    /\ LET q == sess[fr[p].sp].queue IN
         IF q # <<>>
         THEN /\ Land(p, [fr[p] EXCEPT !.latest = Ptr(Head(q)),
                                       !.finalSeen = fr[p].finalSeen \/ Head(q).IsFinal],
                      "conDrain")
              /\ sess' = [sess EXCEPT ![fr[p].sp].queue = Tail(@)]
         ELSE /\ Land(p, [fr[p] EXCEPT !.latest =
                            IF fr[p].finalSeen THEN Ptr([Deref(@) EXCEPT !.IsFinal = TRUE]) ELSE @],
                      "conUpdate")
              /\ sess' = sess
    /\ UNCHANGED <<cfgVars, cmdVars, tallyVars, pipeVars, mgrVars, now, fallback, appended, calls, histVars>>

\* session.LastChunk = &latestChunk; if latestChunk.IsFinal { session.Finished = true }
\* return &latestChunk          (the session and the caller share latestChunk)
ConsumeUpdate(p) ==
    /\ pc[p] = "conUpdate"
    /\ LET s == fr[p].sp
           latestChunk == Deref(fr[p].latest)
       IN sess' = [sess EXCEPT ![s].LastAccess = now,
                               ![s].LastChunk = Ptr(latestChunk),
                               ![s].LastChunkRef = p,
                               ![s].Finished = @ \/ latestChunk.IsFinal]
    /\ Land(p, [fr[p] EXCEPT !.ret = fr[p].latest], AfterConsume(fr[p]))
    /\ UNCHANGED <<cfgVars, cmdVars, tallyVars, pipeVars, mgrVars, now, fallback, appended, calls, histVars>>

\* if session.Finished && session.LastChunk != nil { clone := *session.LastChunk; cached = &clone }
CachedMutant(session) == Nil
Cached(session) ==
    IF session.Finished /\ session.LastChunk # Nil THEN session.LastChunk ELSE Nil

\* case <-timer.C: session.mu.Lock() ... session.mu.Unlock(); return cached
ConsumeTimeout(p) ==
    /\ pc[p] = "conTimeout"
    /\ sess' = [sess EXCEPT ![fr[p].sp].LastAccess = now]
    /\ Land(p, [fr[p] EXCEPT !.ret = Cached(sess[fr[p].sp]), !.timedOut = TRUE],
            AfterConsume(fr[p]))
    /\ UNCHANGED <<cfgVars, cmdVars, tallyVars, pipeVars, mgrVars, now, fallback, appended, calls, histVars>>

Consume(p) ==
    \/ ConsumeTouch(p) \/ ConsumeReceive(p) \/ ConsumeTimerFires(p)
    \/ ConsumeDrain(p) \/ ConsumeUpdate(p) \/ ConsumeTimeout(p)

\* ---------------------------------------------------------- MarkFinished
\* session := m.getSession(streamID); if session == nil { return }
MarkFinishedGet(p, f) ==
    LET session == getSession(f.sid) IN
      IF session = 0 THEN Land(p, f, AfterMarkFinished(f))
      ELSE Land(p, [f EXCEPT !.sp = session], "mfSet")

CallMarkFinished(p, streamID) ==
    /\ Begin(p)
    /\ MarkFinishedGet(p, [Frame0 EXCEPT !.op = "MarkFinished", !.sid = streamID])
    /\ UNCHANGED <<cfgVars, cmdVars, tallyVars, pipeVars, mgrVars, now, fallback, appended, calls, histVars>>

\* session.setFinished()
MarkFinishedSet(p) ==
    /\ pc[p] = "mfSet"
    /\ sess' = [sess EXCEPT ![fr[p].sp] = setFinished(@, now)]
    /\ Land(p, fr[p], AfterMarkFinished(fr[p]))
    /\ marked' = marked \cup {fr[p].sp}
    /\ UNCHANGED <<cfgVars, cmdVars, tallyVars, pipeVars, mgrVars, now, fallback, appended, calls, scn, log, finishSeen>>

MarkFinished(p) == MarkFinishedSet(p)

\* ------------------------------------------------- SetUpdate, GetUpdate
\* session := m.getSession(streamID); if session == nil { return }
SetUpdateGet(p, f) ==
    LET session == getSession(f.sid) IN
      IF session = 0 THEN Land(p, f, AfterSetUpdate(f))
      ELSE Land(p, [f EXCEPT !.sp = session], "suLock")

CallSetUpdate(p, streamID, update) ==
    /\ Begin(p)
    /\ SetUpdateGet(p, [Frame0 EXCEPT !.op = "SetUpdate", !.sid = streamID, !.update = Ptr(update)])
    /\ UNCHANGED <<cfgVars, cmdVars, tallyVars, pipeVars, mgrVars, now, fallback, appended, calls, histVars>>

\* session.mu.Lock(); session.Update = update; session.mu.Unlock()
SetUpdate(p) ==
    /\ pc[p] = "suLock"
    /\ sess' = [sess EXCEPT ![fr[p].sp].Update = Deref(fr[p].update)]
    /\ Land(p, fr[p], AfterSetUpdate(fr[p]))
    /\ UNCHANGED <<cfgVars, cmdVars, tallyVars, pipeVars, mgrVars, now, fallback, appended, calls, histVars>>

\* session := m.getSession(streamID); if session == nil { return botcore.Update{} }
GetUpdateGetMutant(p, f) == Land(p, [f EXCEPT !.sp = f.sid], "guLock")
GetUpdateGet(p, f) ==
    LET session == getSession(f.sid) IN
      IF session = 0 THEN Land(p, [f EXCEPT !.update = Ptr(ZeroUpdate)], "done")
      ELSE Land(p, [f EXCEPT !.sp = session], "guLock")

CallGetUpdate(p, streamID) ==
    /\ Begin(p)
    /\ GetUpdateGet(p, [Frame0 EXCEPT !.op = "GetUpdate", !.sid = streamID])
    /\ UNCHANGED <<cfgVars, cmdVars, tallyVars, pipeVars, mgrVars, now, fallback, appended, calls, histVars>>

\* session.mu.Lock(); defer session.mu.Unlock(); return session.Update
GetUpdate(p) ==
    /\ pc[p] = "guLock"
    /\ Land(p, [fr[p] EXCEPT !.update = Ptr(sess[fr[p].sp].Update)], "done")
    /\ UNCHANGED <<cfgVars, cmdVars, tallyVars, pipeVars, mgrVars, sess, now, fallback, appended, calls, histVars>>

\* -------------------------------------------------------------- Cleanup
\* expired := now.Sub(session.LastAccess) > m.ttl
ExpiredMutant(t, session) == t - session.LastAccess >= TTL
Expired(t, session) == t - session.LastAccess > TTL

\* if mapped, ok := m.msgIndex[session.MsgID]; ok && mapped == streamID { delete(...) }
DropIndexMutant(index, streamID, msgID) ==
    IF msgID # "" THEN [index EXCEPT ![msgID] = 0] ELSE index
DropIndex(index, streamID, msgID) ==
    IF msgID # "" /\ index[msgID] = streamID THEN [index EXCEPT ![msgID] = 0] ELSE index

RECURSIVE CleanupLoop(_, _, _, _)
\* for streamID, session := range m.sessions { ... }: the maps after the loop
\* has visited the stream ids of todo.  The order of a range over a map is
\* unspecified; the loop's result does not depend on it (DropIndex of one
\* session never changes what another session's DropIndex reads).
CleanupLoop(todo, live, index, t) ==
    IF todo = {} THEN [sessions |-> live, msgIndex |-> index]
    ELSE LET streamID == CHOOSE s \in todo : TRUE IN
           IF Expired(t, sess[streamID])
           THEN CleanupLoop(todo \ {streamID}, live \ {streamID},
                            DropIndex(index, streamID, sess[streamID].MsgID), t)
           ELSE CleanupLoop(todo \ {streamID}, live, index, t)

\* now := time.Now()
CallCleanup(p) ==
    /\ Begin(p)
    /\ Land(p, [Frame0 EXCEPT !.op = "Cleanup", !.cnow = now], "clRun")
    /\ UNCHANGED <<cfgVars, cmdVars, tallyVars, pipeVars, mgrVars, now, fallback, appended, calls, histVars>>

\* m.mu.Lock(); for ... { ... }; m.mu.Unlock().  The loop holds the manager's
\* write lock, so no process reads or writes the maps while it runs; a write
\* to a session's LastAccess during the loop commutes with the loop's steps on
\* the other sessions, so the loop is one step.
CleanupRun(p) ==
    /\ pc[p] = "clRun"
    /\ LET r == CleanupLoop(sessions, sessions, msgIndex, fr[p].cnow) IN
         /\ sessions' = r.sessions
         /\ msgIndex' = r.msgIndex
    /\ Land(p, fr[p], "done")
    /\ UNCHANGED <<cfgVars, cmdVars, tallyVars, pipeVars, sess, nextID, now, fallback, appended, calls, histVars>>

Cleanup(p) == CleanupRun(p)

\* time passes
Tick ==
    /\ now < MaxTime
    /\ now' = now + 1
    /\ UNCHANGED <<cfgVars, cmdVars, tallyVars, pipeVars, mgrVars, sess, fallback, pc, fr, appended, calls, histVars>>

\* ---------------------------------------------------- Bot.pushStreamChunk
\* The first call with a final chunk, for the history: its arguments, the
\* session it resolves to (0 when none is live) and what that session had
\* accumulated.
Scenario(streamID, msgID, chunk) ==
    LET target == getSession(IF streamID = 0 THEN GetStreamIDByMsg(msgID) ELSE streamID) IN
      [sid |-> streamID, msg |-> msgID, content |-> chunk.Content, target |-> target,
       before |-> IF target = 0 THEN <<>> ELSE sess[target].Accumulated]

\* target := streamID
\* if target == "" && msgID != "" { if located, ok := GetStreamIDByMsg(msgID); ok { target = located } }
\* if target == "" { return b.cacheFallback(msgID, chunk) }
CallPush(p, streamID, msgID, chunk, limit) ==
    /\ calls.append < limit
    /\ Begin(p)
    /\ LET target == IF streamID = 0 THEN GetStreamIDByMsg(msgID) ELSE streamID
           f == [Frame0 EXCEPT !.op = "Push", !.sid = target, !.msg = msgID, !.chunk = chunk]
       IN Land(p, f, IF target = 0 THEN "pushCache" ELSE "pubGet")
    /\ calls' = [calls EXCEPT !.append = @ + 1]
    /\ scn' = IF chunk.IsFinal /\ scn = Nil THEN Ptr(Scenario(streamID, msgID, chunk)) ELSE scn
    /\ UNCHANGED <<cfgVars, cmdVars, tallyVars, pipeVars, mgrVars, now, fallback, appended, marked, log, finishSeen>>

\* Bot.consumePipeline: the chunks of the pipeline that are pushed
\* if chunk.Content == "" && chunk.Payload == nil && !chunk.IsFinal { continue }
Skipped(chunk) == chunk.Content = <<>> /\ chunk.Payload = NoPayload /\ ~chunk.IsFinal

\* Bot.SetFinalMessage
SetFinalMessage(p, msgID, content, limit) ==
    CallPush(p, 0, msgID, StreamChunk(content, TRUE, NoPayload), limit)

\* Bot.cacheFallback: b.fallback.Store(msgID, chunk) whatever the chunk and the id
cacheFallbackStoreMutant(cache, msgID, chunk) == [cache EXCEPT ![msgID] = Ptr(chunk)]

\* Bot.cacheFallback: if chunk.IsFinal && msgID != "" { b.fallback.Store(msgID, chunk) }
cacheFallbackMutant(cache, msgID, chunk) == cache
cacheFallback(cache, msgID, chunk) ==
    IF chunk.IsFinal /\ msgID # "" THEN [cache EXCEPT ![msgID] = Ptr(chunk)] ELSE cache

\* One more b.fallback.Store for the msg id, when cacheFallback makes one.
Stored(t, msgID, chunk) ==
    IF cacheFallback([m \in FallbackKeys |-> Nil], msgID, chunk)[msgID] # Nil
    THEN [t EXCEPT !.stored[msgID] = @ + 1] ELSE t

\* What became of a chunk handed to cacheFallback: "cached" or "dropped".
Kept(msgID, chunk) ==
    IF Stored(NoTally, msgID, chunk) # NoTally THEN "cached" ELSE "dropped"

\* if target == "" { return b.cacheFallback(msgID, chunk) }
PushCache(p) ==
    /\ pc[p] = "pushCache"
    /\ fallback' = cacheFallback(fallback, fr[p].msg, fr[p].chunk)
    /\ tally' = Stored(tally, fr[p].msg, fr[p].chunk)
    /\ Land(p, [fr[p] EXCEPT !.ok = FALSE, !.delivered = Kept(fr[p].msg, fr[p].chunk)],
            AfterPush(fr[p]))
    /\ UNCHANGED <<cfgVars, cmdVars, pipeVars, mgrVars, sess, now, appended, calls, histVars>>

\* if !b.Sessions.Publish(target, chunk) {      (the call's first step)
PushPublishGet(p) ==
    /\ pc[p] = "pubGet"
    /\ PublishGet(p, fr[p])
    /\ UNCHANGED <<cfgVars, cmdVars, tallyVars, pipeVars, mgrVars, sess, now, fallback, appended, calls, histVars>>

\* if !b.Sessions.Publish(target, chunk) { return b.cacheFallback(msgID, chunk) }
\* if chunk.IsFinal { b.Sessions.MarkFinished(target) }; return true
PushAfterPublish(p) ==
    /\ pc[p] = "pushAfterPublish"
    /\ IF ~fr[p].ok
       THEN /\ fallback' = cacheFallback(fallback, fr[p].msg, fr[p].chunk)
            /\ tally' = Stored(tally, fr[p].msg, fr[p].chunk)
            /\ Land(p, [fr[p] EXCEPT !.delivered = Kept(fr[p].msg, fr[p].chunk)],
                    AfterPush(fr[p]))
       ELSE /\ fallback' = fallback
            /\ tally' = tally
            /\ Land(p, [fr[p] EXCEPT !.delivered = "published"],
                    IF fr[p].chunk.IsFinal THEN "mfGet" ELSE AfterPush(fr[p]))
    /\ UNCHANGED <<cfgVars, cmdVars, pipeVars, mgrVars, sess, now, appended, calls, histVars>>

\* b.Sessions.MarkFinished(...): the call's first step, in pushStreamChunk and Refresh
BotMarkFinishedGet(p) ==
    /\ pc[p] = "mfGet"
    /\ MarkFinishedGet(p, fr[p])
    /\ UNCHANGED <<cfgVars, cmdVars, tallyVars, pipeVars, mgrVars, sess, now, fallback, appended, calls, histVars>>

Push(p) == PushCache(p) \/ PushPublishGet(p) \/ PushAfterPublish(p) \/ BotMarkFinishedGet(p)

\* ------------------------------------------------------------ Bot.Refresh
NoReply == [payload |-> NoPayload, id |-> 0, content |-> <<>>, finish |-> FALSE]

\* BuildStreamReply / StreamEmitter.Encode
BuildStreamReply(streamID, content, finish) ==
    [payload |-> NoPayload, id |-> streamID, content |-> content, finish |-> finish]

\* Bot.buildReply
buildReply(streamID, chunk) ==
    IF chunk.Payload # NoPayload THEN [NoReply EXCEPT !.payload = chunk.Payload]
    ELSE BuildStreamReply(streamID, chunk.Content, chunk.IsFinal)

\* Refresh returns reply; the history records it.
Reply(p, f, reply) ==
    /\ Land(p, [f EXCEPT !.reply = Ptr(reply)], "done")
    /\ log' = IF /\ scn # Nil /\ Len(log) < MaxLog
                 /\ f.sid # 0 /\ f.msg = Deref(scn).msg
              THEN Append(log, [sid |-> f.sid, live |-> f.live,
                                content |-> reply.content, finish |-> reply.finish])
              ELSE log
    /\ finishSeen' = (finishSeen \/ (scn # Nil /\ reply.finish))

\* if streamID == "" { reply := buildReply(Update{}, "", StreamChunk{Content: "", IsFinal: true}) ... }
\* chunk := b.Sessions.Consume(streamID, timeout)       (the call's first step)
RefreshStart(p, f0, streamID, msgID) ==
    LET f == [f0 EXCEPT !.op = "Refresh", !.sid = streamID, !.msg = msgID,
                        !.live = streamID \in sessions,
                        !.afterMark = streamID \in marked]
    IN IF streamID = 0
       THEN Reply(p, f, buildReply(0, StreamChunk(<<>>, TRUE, NoPayload)))
       ELSE ConsumeGet(p, f) /\ UNCHANGED <<cfgVars, cmdVars, tallyVars, log, finishSeen>>

CallRefresh(p, streamID, msgID) ==
    /\ Begin(p)
    /\ RefreshStart(p, Frame0, streamID, msgID)
    /\ UNCHANGED <<cfgVars, cmdVars, tallyVars, pipeVars, mgrVars, now, fallback, appended, calls, marked, scn>>

\* if chunk == nil { if msg.MsgID != "" { if cached, ok := b.fallback.LoadAndDelete(msg.MsgID) ... } }
\* if chunk == nil { reply := buildReply(update, streamID, StreamChunk{Content: "", IsFinal: false}) ... }
\* if chunk.IsFinal { b.Sessions.MarkFinished(streamID) }
\* b.fallback.LoadAndDelete(msgID) that leaves the entry where it is
LoadAndDeleteMutant(cache, msgID) == cache

\* b.fallback.LoadAndDelete(msgID): the cache it leaves
LoadAndDelete(cache, msgID) == [cache EXCEPT ![msgID] = Nil]

RefreshAfterConsume(p) ==
    /\ pc[p] = "refreshAfterConsume"
    /\ LET load == fr[p].ret = Nil /\ fr[p].msg # ""
           chunk == IF load THEN fallback[fr[p].msg] ELSE fr[p].ret
       IN /\ fallback' = IF load THEN LoadAndDelete(fallback, fr[p].msg) ELSE fallback
          /\ tally' = IF load /\ chunk # Nil
                      THEN [tally EXCEPT !.returned[fr[p].msg] = @ + 1] ELSE tally
          /\ IF chunk = Nil
             THEN Reply(p, fr[p], buildReply(fr[p].sid, StreamChunk(<<>>, FALSE, NoPayload)))
             ELSE /\ Land(p, [fr[p] EXCEPT !.ret = chunk],
                          IF Deref(chunk).IsFinal THEN "mfGet" ELSE "refreshReply")
                  /\ UNCHANGED <<cfgVars, cmdVars, log, finishSeen>>
    /\ UNCHANGED <<cfgVars, cmdVars, pipeVars, mgrVars, sess, now, appended, calls, marked, scn>>

\* reply, err := b.buildReply(update, streamID, *chunk)
RefreshReply(p) ==
    /\ pc[p] = "refreshReply"
    /\ Reply(p, fr[p], buildReply(fr[p].sid, Deref(fr[p].ret)))
    /\ UNCHANGED <<cfgVars, cmdVars, tallyVars, pipeVars, mgrVars, sess, now, fallback, appended, calls, marked, scn>>

Refresh(p) == RefreshAfterConsume(p) \/ RefreshReply(p)

\* ------------------------------------------------ specification: session
\* One session, as TestSessionManagerPublishConsume sets it up: the state
\* after NewSessionManager and CreateOrGet(&Message{MsgID: "m1"}).  Two
\* processes call Publish, Accumulate, Consume and MarkFinished on it,
\* concurrently.
InitSession ==
    /\ NoParse /\ NoTrigger /\ NoCrypt /\ NoExec
    /\ bot = ConfiguredBot
    /\ sessions = {1}
    /\ msgIndex = [m \in MsgIDs |-> IF m = "m1" THEN 1 ELSE 0]
    /\ sess = [s \in StreamIDs |-> NewSession(IF s = 1 THEN "m1" ELSE "", 0)]
    /\ nextID = 2
    /\ now = 0
    /\ fallback = [m \in FallbackKeys |-> Nil]
    /\ tally = NoTally
    /\ outCh = <<>> /\ cmd = NoCommand /\ once = NewOnce /\ chState = "none"
    /\ emitted = <<>> /\ first = Nil
    /\ pc = [p \in Threads |-> "idle"]
    /\ fr = [p \in Threads |-> Frame0]
    /\ appended = [s \in StreamIDs |-> <<>>]
    /\ calls = [create |-> 1, append |-> 0]
    /\ marked = {}
    /\ scn = Nil
    /\ log = <<>>
    /\ finishSeen = FALSE

SessionCalls(p) ==
    \/ \E c \in TextChunks : CallPublish(p, 1, c, MaxAppends)
    \/ \E c \in Contents : CallAccumulate(p, 1, c, MaxAppends)
    \/ CallConsume(p, 1)
    \/ CallMarkFinished(p, 1)

NextSession ==
    \E p \in Threads :
      \/ SessionCalls(p)
      \/ Publish(p) \/ Accumulate(p) \/ Consume(p) \/ MarkFinished(p)

SpecSession == InitSession /\ [][NextSession]_vars

\* ------------------------------------------------ specification: manager
\* A fresh SessionManager.  Two processes call CreateOrGet and Cleanup while
\* time passes; as Initial's pipeline does, a process that got a session from
\* CreateOrGet may publish one chunk into it.
ManagerCalls(p) ==
    \/ \E m \in MsgIDs \cup {""} : CallCreateOrGet(p, m, MaxCreateCalls)
    \/ /\ pc[p] = "done" /\ fr[p].op = "CreateOrGet"
       /\ \E f \in BOOLEAN :
            CallPublish(p, fr[p].sp, StreamChunk(<<"a">>, f, NoPayload), MaxCreateCalls)
    \/ CallCleanup(p)

Next ==
    \/ \E p \in Threads :
         \/ ManagerCalls(p)
         \/ CreateOrGet(p) \/ Publish(p) \/ Cleanup(p)
    \/ Tick

Spec == Init /\ [][Next]_vars

\* ----------------------------------------------- specification: overflow
\* One session and no time, as in SpecSession.  A producer publishes the
\* same non-final chunk, more often than the queue has room for, and a
\* consumer calls Consume.
Producer == "t1"
Consumer == "t2"

OverflowCalls(p) ==
    \/ /\ p = Producer
       /\ CallPublish(p, 1, StreamChunk(<<"a">>, FALSE, NoPayload), QueueCap + MaxAppends)
    \/ /\ p = Consumer
       /\ CallConsume(p, 1)

NextOverflow ==
    \E p \in Threads :
      \/ OverflowCalls(p)
      \/ Publish(p) \/ PublishBlockedSend(p) \/ Consume(p)

SpecOverflow == InitSession /\ [][NextOverflow]_vars

\* ---------------------------------------------------- specification: bot
\* A Bot after Initial created the session of one turn (InitSession),
\* called by one process, one call after the other: pushStreamChunk with the
\* session's stream id and msg id (as the consumePipeline that Initial starts
\* for it does) and SetFinalMessage, until the first final chunk was pushed,
\* and Refresh callbacks and Cleanup at any time, while time passes.
Caller == "t1"
Quiet == \A q \in Threads : Idle(q)

BotCalls(p) ==
    \/ /\ Quiet /\ scn = Nil
       /\ \E s \in 1..(nextID - 1), c \in TextChunks :
            ~Skipped(c) /\ CallPush(p, s, sess[s].MsgID, c, MaxAppends)
    \/ /\ Quiet /\ scn = Nil
       /\ \E m \in MsgIDs, c \in Contents : SetFinalMessage(p, m, c, MaxAppends)
    \/ /\ Quiet
       /\ \E s \in StreamIDs \cup {0}, m \in MsgIDs \cup {""} : CallRefresh(p, s, m)
    \/ /\ Quiet
       /\ CallCleanup(p)

BotStep(p) ==
    \/ Publish(p) \/ Consume(p) \/ MarkFinished(p) \/ Cleanup(p)
    \/ Push(p) \/ Refresh(p)

NextBot ==
    \/ BotCalls(Caller) \/ BotStep(Caller)
    \/ Tick

SpecBot == InitSession /\ [][NextBot]_vars

\* The platform keeps sending Refresh callbacks for the stream id and the msg
\* id of the turn whose final chunk was pushed, and every call that started
\* runs to its end.
TurnRefresh ==
    scn # Nil /\ Quiet /\ CallRefresh(Caller, Deref(scn).sid, Deref(scn).msg)

\* The select of Consume picks among its ready cases at random: a queued chunk
\* is not passed over for the timer forever.
SpecBotLive ==
    /\ SpecBot /\ WF_vars(BotStep(Caller)) /\ SF_vars(TurnRefresh)
    /\ SF_vars(ConsumeReceive(Caller))

\* ------------------------------------------------------ claims: session
\* The contents a session's accumulated text went through: the
\* concatenations of the first k appended contents.
Snapshots(s) == {Flatten(SubSeq(appended[s], 1, k)) : k \in 1..Len(appended[s])}

ConsumeReturned(p) == pc[p] = "done" /\ fr[p].op = "Consume" /\ fr[p].ret # Nil

\* C1: every chunk Consume returns, from the queue or from the timeout
\* fallback, carries the session's full accumulated text as of one of the
\* appends (the concatenation of every content appended up to it), never the
\* content of a single chunk.
C1_ConsumeReturnsSnapshot ==
    \A p \in Threads :
      ConsumeReturned(p) => Deref(fr[p].ret).Content \in Snapshots(fr[p].sp)

C1_Witness ==
    \E p \in Threads :
      /\ ConsumeReturned(p)
      /\ appended[fr[p].sp] = << <<"a">>, <<"b">> >>
      /\ Deref(fr[p].ret).Content = <<"a", "b">>

\* C2: snapshots enter the queue in the order in which their contents were
\* appended to the accumulated text: a queued snapshot is never shorter than
\* one queued before it.
C2_QueueInPublishOrder ==
    \A s \in StreamIDs : \A i, j \in 1..Len(sess[s].queue) :
      i < j => IsPrefix(sess[s].queue[i].Content, sess[s].queue[j].Content)

\* C5: a Consume that starts after MarkFinished returned and times out
\* returns the cached last chunk with IsFinal = true, whatever produced that
\* last chunk.
C5_TimeoutAfterMarkIsFinal ==
    \A p \in Threads :
      (ConsumeReturned(p) /\ fr[p].timedOut /\ fr[p].afterMark) => Deref(fr[p].ret).IsFinal

\* C7: whenever a session's LastChunk is non-nil, its content is the
\* session's accumulated text.
C7_LastChunkIsAccumulated ==
    \A s \in sessions :
      sess[s].LastChunk # Nil => Deref(sess[s].LastChunk).Content = sess[s].Accumulated

\* C8: the accumulated text only grows by appending: each step leaves the
\* old text a prefix of the new one, only the locked sections of Publish and
\* Accumulate change it, and it always is the concatenation of the contents
\* of the calls in the order in which they took the session lock.
C8_AccumulatedAppendOnly ==
    /\ [](\A s \in StreamIDs : sess[s].Accumulated = Flatten(appended[s]))
    /\ [][\A s \in StreamIDs :
            /\ IsPrefix(sess[s].Accumulated, sess'[s].Accumulated)
            /\ sess'[s].Accumulated # sess[s].Accumulated =>
                 \E p \in Threads : fr[p].sp = s /\ (PublishLock(p) \/ AccumulateLock(p))]_vars

C8_Witness ==
    /\ pc["t1"] = "done" /\ fr["t1"].op = "Publish"
    /\ pc["t2"] = "done" /\ fr["t2"].op = "Accumulate"
    /\ sess[1].Accumulated = <<"b", "a">>

\* ----------------------------------------------------- claims: overflow
\* C3: Publish never waits for room in the queue: no Publish sits in a
\* blocking send on a queue that holds QueueCap snapshots.
C3_PublishNeverWaits ==
    \A p \in Threads :
      ~(pc[p] = "pubBlockedSend" /\ Len(sess[fr[p].sp].queue) = QueueCap)

\* ---------------------------------------------------------- claims: bot
\* C4: once the pipeline's final chunk of a turn with a non-empty msg id was
\* pushed with the turn's stream id, and the platform keeps sending Refresh
\* callbacks for the turn, some Refresh reply eventually carries finish = true.
C4_FinalEventuallyReplied ==
    (scn # Nil /\ Deref(scn).sid # 0 /\ Deref(scn).msg # "") ~> finishSeen

\* SetFinalMessage(m, c) with a non-empty m was called; the calls after it are
\* Refresh callbacks and Cleanup.
C6_Scenario == scn # Nil /\ Deref(scn).sid = 0 /\ Deref(scn).msg # ""

\* C6, as stated: of the Refresh callbacks with msg id m after
\* SetFinalMessage(m, c) (for the session of m while it is live when m has a
\* session, with any stream id when it has none) the first one is replied
\* content = c, finish = true, and no later one is.
C6_FinalExactlyOnce ==
    C6_Scenario =>
      LET sc == Deref(scn) IN
        \A i \in 1..Len(log) :
          (\A j \in 1..i : sc.target = 0 \/ (log[j].sid = sc.target /\ log[j].live)) =>
            ((log[i].content = sc.content /\ log[i].finish) <=> i = 1)

\* C6, corrected: after SetFinalMessage(m, c), of the Refresh callbacks with
\* msg id m and a non-empty stream id,
\*  - when m had no session and the stream ids name no live session (the chunk
\*    went to the fallback cache), the first one is replied content = c,
\*    finish = true, and no later one is;
\*  - when m had a session (the chunk went through Publish), every one with
\*    that session's stream id, the first and each later one, as long as the
\*    session is live, is replied finish = true and as content the text the
\*    session had accumulated before, followed by c.
C6_FinalMessageReplies ==
    C6_Scenario =>
      LET sc == Deref(scn) IN
        \A i \in 1..Len(log) :
          /\ (sc.target = 0 /\ \A j \in 1..i : ~log[j].live) =>
               ((log[i].content = sc.content /\ log[i].finish) <=> i = 1)
          /\ (sc.target # 0 /\ log[i].sid = sc.target /\ log[i].live) =>
               (log[i].content = sc.before \o sc.content /\ log[i].finish)

\* The session had accumulated "a", SetFinalMessage("m1", "b") followed, and
\* two Refresh callbacks for the session were both replied "ab", finish = true.
C6_Witness ==
    /\ C6_Scenario
    /\ Deref(scn).target = 1 /\ Deref(scn).before = <<"a">> /\ Deref(scn).content = <<"b">>
    /\ Len(log) = 2
    /\ \A i \in 1..2 : log[i].sid = 1 /\ log[i].live /\ log[i].finish
                       /\ log[i].content = <<"a", "b">>

\* ------------------------------------------------------ claims: manager
\* C9: every live session with a non-empty msg id is the session the msg id
\* index points to.
C9_IndexPointsToLiveSession ==
    \A s \in sessions : sess[s].MsgID # "" => msgIndex[sess[s].MsgID] = s

\* C10: the step of Cleanup that runs the loop removes exactly the sessions
\* whose LastAccess lies more than TTL before the time Cleanup read when it
\* started, whether finished or not and whatever their queues hold; a msg id
\* leaves the index exactly when it maps to a removed session with that msg
\* id; no Session object and no other index entry changes.
C10_CleanupRemovesExactlyExpired ==
    [][\A p \in Threads : CleanupRun(p) =>
         LET removed == {s \in sessions : fr[p].cnow - sess[s].LastAccess > TTL} IN
           /\ sessions' = sessions \ removed
           /\ \A m \in MsgIDs :
                msgIndex'[m] = IF \E s \in removed : sess[s].MsgID = m /\ msgIndex[m] = s
                               THEN 0 ELSE msgIndex[m]
           /\ sess' = sess]_vars

\* Cleanup returned and a session that was not finished and has a chunk
\* queued is no longer in the map.
C10_Witness ==
    \E p \in Threads, s \in StreamIDs :
      /\ pc[p] = "done" /\ fr[p].op = "Cleanup"
      /\ s < nextID /\ s \notin sessions
      /\ ~sess[s].Finished /\ sess[s].queue # <<>>

\* C11: a CreateOrGet whose msg id the index maps to a live session (when it
\* reads the index, and when it then looks the session up) returns that
\* session with isNew = false, sets its LastAccess to the current time and
\* changes neither the maps nor anything else of a session; every other
\* CreateOrGet allocates one session under a fresh stream id, with an empty
\* queue, not finished and with empty accumulated text, inserts it, writes
\* msg id -> stream id into the index iff the msg id is non-empty, and returns
\* it with isNew = true.
C11_CreateOrGetReusesOrCreates ==
    [][\A p \in Threads :
         /\ (Idle(p) /\ pc'[p] \in {"cogGet", "cogNew"}) =>
              /\ pc'[p] = "cogGet" <=> (fr'[p].msg # "" /\ msgIndex[fr'[p].msg] # 0)
              /\ pc'[p] = "cogGet" => fr'[p].sid = msgIndex[fr'[p].msg]
         /\ (pc[p] = "cogGet" /\ pc'[p] # "cogGet") =>
              /\ pc'[p] = IF fr[p].sid \in sessions THEN "cogTouch" ELSE "cogNew"
              /\ pc'[p] = "cogTouch" => fr'[p].sp = fr[p].sid
         /\ (pc[p] = "cogTouch" /\ pc'[p] # "cogTouch") =>
              /\ pc'[p] = "done" /\ fr'[p].sp = fr[p].sp /\ ~fr'[p].isNew
              /\ sess' = [sess EXCEPT ![fr[p].sp].LastAccess = now]
              /\ UNCHANGED mgrVars
         /\ (pc[p] = "cogNew" /\ pc'[p] # "cogNew") =>
              /\ pc'[p] = "cogInsert"
              /\ fr'[p].sp = nextID /\ nextID' = nextID + 1 /\ nextID \notin sessions
              /\ sess'[nextID] = [MsgID |-> fr[p].msg, LastAccess |-> now, queue |-> <<>>,
                                  Finished |-> FALSE, LastChunk |-> Nil,
                                  LastChunkRef |-> "none", Accumulated |-> <<>>,
                                  Update |-> ZeroUpdate]
              /\ \A s \in StreamIDs \ {nextID} : sess'[s] = sess[s]
              /\ UNCHANGED <<sessions, msgIndex>>
         /\ (pc[p] = "cogInsert" /\ pc'[p] # "cogInsert") =>
              /\ pc'[p] = "done" /\ fr'[p].sp = fr[p].sp /\ fr'[p].isNew
              /\ fr[p].sp \notin sessions /\ sessions' = sessions \cup {fr[p].sp}
              /\ sess[fr[p].sp].queue = <<>> /\ ~sess[fr[p].sp].Finished
              /\ sess[fr[p].sp].Accumulated = <<>>
              /\ \A m \in MsgIDs :
                   msgIndex'[m] = IF m = fr[p].msg THEN fr[p].sp ELSE msgIndex[m]
              /\ UNCHANGED <<sess, nextID>>]_vars

\* One CreateOrGet created session 1 at time 0, another one returned it at a
\* later time with isNew = false and a refreshed LastAccess.
C11_Witness ==
    /\ pc["t1"] = "done" /\ fr["t1"].op = "CreateOrGet" /\ fr["t1"].isNew
    /\ pc["t2"] = "done" /\ fr["t2"].op = "CreateOrGet" /\ ~fr["t2"].isNew
    /\ fr["t1"].sp = 1 /\ fr["t2"].sp = 1
    /\ sess[1].LastAccess > 0 /\ msgIndex["m1"] = 1 /\ sessions = {1}

\* The snapshots the Consume of p has still to merge: the queue before its
\* first receive, then the snapshot it holds followed by the queue, then (once
\* it found the queue empty) the snapshot it holds.
Pending(p) ==
    IF pc[p] = "conSelect" THEN sess[fr[p].sp].queue
    ELSE IF pc[p] = "conDrain" THEN <<Deref(fr[p].latest)>> \o sess[fr[p].sp].queue
    ELSE <<Deref(fr[p].latest)>>

\* The chunk a sequence of snapshots merges to: the most recently queued one,
\* final iff one of them was final.
Merged(q, finalSeen) ==
    [q[Len(q)] EXCEPT !.IsFinal = finalSeen \/ \E i \in 1..Len(q) : q[i].IsFinal]

\* The step is one of p (no other process moves, and none is a receiver that
\* could take a snapshot without a change of its own frame).
StepOf(p) ==
    \A o \in Threads \ {p} : pc'[o] = pc[o] /\ fr'[o] = fr[o] /\ pc[o] # "conDrain"

\* The steps by which the Consume of p merges the snapshots it receives: each
\* leaves the merge of the snapshots it has still to handle unchanged, it stops
\* receiving only when it finds the queue empty, and its last step returns that
\* merge, stores the very same chunk as LastChunk and sets Finished when the
\* chunk is final.
MergeSteps(p) ==
    /\ (pc[p] = "conSelect" /\ pc'[p] = "conDrain") =>
         /\ Merged(Pending(p)', fr'[p].finalSeen) = Merged(Pending(p), FALSE)
         /\ Len(Pending(p)') = Len(Pending(p))
    /\ (pc[p] = "conDrain" /\ sess[fr[p].sp].queue # <<>>) =>
         /\ pc'[p] = "conDrain"
         /\ Merged(Pending(p)', fr'[p].finalSeen) = Merged(Pending(p), fr[p].finalSeen)
         /\ Len(Pending(p)') = Len(Pending(p)) - 1
    /\ (pc[p] = "conDrain" /\ sess[fr[p].sp].queue = <<>>) =>
         /\ pc'[p] = "conUpdate"
         /\ Merged(Pending(p)', fr'[p].finalSeen) = Merged(Pending(p), fr[p].finalSeen)
         /\ sess'[fr[p].sp].queue = <<>>
    /\ pc[p] = "conUpdate" =>
         LET chunk == Merged(Pending(p), fr[p].finalSeen)
             s == fr[p].sp
         IN /\ pc'[p] = "done" /\ ~fr'[p].timedOut
            /\ fr'[p].ret = Ptr(chunk)
            /\ sess'[s].LastChunk = Ptr(chunk) /\ sess'[s].LastChunkRef = p
            /\ sess'[s].Finished = (sess[s].Finished \/ chunk.IsFinal)
            /\ sess'[s].queue = sess[s].queue
            /\ sess'[s].Accumulated = sess[s].Accumulated

\* The Consume of p is at its select and snapshots are queued.
FindsQueued(p) == pc[p] = "conSelect" /\ sess[fr[p].sp].queue # <<>>

\* The steps of a Consume of p that took the timer case: it returns nil or,
\* for a finished session, the cached last chunk, and leaves the queue, the
\* last chunk and the finished flag as they are.
TimeoutSteps(p) ==
    /\ (pc[p] = "conSelect" /\ pc'[p] = "conTimeout") => sess' = sess
    /\ pc[p] = "conTimeout" =>
         LET s == fr[p].sp
         IN /\ pc'[p] = "done" /\ fr'[p].timedOut
            /\ fr'[p].ret = (IF sess[s].Finished THEN sess[s].LastChunk ELSE Nil)
            /\ sess'[s].queue = sess[s].queue
            /\ sess'[s].LastChunk = sess[s].LastChunk
            /\ sess'[s].Finished = sess[s].Finished

\* C12 (as stated): a Consume that finds snapshots queued returns one chunk,
\* the most recently queued snapshot with IsFinal set iff one of the snapshots
\* it received was final: it receives from the queue, and from there on its
\* steps are the merge steps. With no Publish (and no other receiver) between
\* these steps the merge is the one of the queue the call found; afterwards
\* the queue is empty and last-chunk is the returned chunk.
C12_ConsumeMergesQueue ==
    [][\A p \in Threads :
         StepOf(p) => (FindsQueued(p) => pc'[p] = "conDrain") /\ MergeSteps(p)]_vars

\* C12 (amended): a Consume that finds snapshots queued either receives from
\* the queue, and then returns one chunk as stated, by the merge steps, or
\* takes the timer case (its timer has fired before it came to the select),
\* and then returns nil or the cached last chunk of a finished session and
\* leaves the queue as it found it.
C12_ConsumeMergesQueueOrTimesOut ==
    [][\A p \in Threads :
         StepOf(p) =>
           /\ FindsQueued(p) => pc'[p] \in {"conDrain", "conTimeout"}
           /\ MergeSteps(p)
           /\ TimeoutSteps(p)]_vars

\* A Consume that received the final snapshot "a" and finds the later,
\* non-final snapshot "ab" queued, while nothing else runs.
C12_Witness ==
    /\ pc["t2"] = "conDrain" /\ Idle("t1")
    /\ Deref(fr["t2"].latest) = StreamChunk(<<"a">>, TRUE, NoPayload)
    /\ fr["t2"].finalSeen
    /\ sess[1].queue = << StreamChunk(<<"a", "b">>, FALSE, NoPayload) >>

\* ---------------------------------------------------------------------
\* One producer publishing into session 1 while one consumer keeps polling
\* it, as the detached pipeline consumer and the platform's refresh callbacks
\* do.  Both goroutines keep being scheduled, and the select of Consume, which
\* picks among its ready cases at random, does not pass over a queued chunk
\* for the timer forever.
NextStream ==
    \/ \E c \in TextChunks : CallPublish(Producer, 1, c, MaxAppends + 1)
    \/ CallConsume(Consumer, 1)
    \/ Publish(Producer)
    \/ Consume(Consumer)

SpecStream ==
    /\ InitSession /\ [][NextStream]_vars
    /\ WF_vars(Publish(Producer))
    /\ WF_vars(CallConsume(Consumer, 1) \/ Consume(Consumer))
    /\ SF_vars(ConsumeReceive(Consumer))

\* t occurs in s as a contiguous run
Contains(s, t) ==
    \E i \in 0..(Len(s) - Len(t)) : SubSeq(s, i + 1, i + Len(t)) = t

\* The k-th and the (k+1)-th Publish on session 1 have appended their contents
\* and the later one is about to enqueue its snapshot.
SecondPublished(k) ==
    /\ pc[Producer] = "pubSend" /\ fr[Producer].sp = 1
    /\ Len(appended[1]) = k + 1

\* C13 as stated: after Publish(s, c1) and then Publish(s, c2), some Consume
\* on s eventually returns a snapshot whose content starts with c1's content
\* and contains c1's content immediately followed by c2's.
C13_ConsumeStartsWithFirst ==
    \A k \in 1..MaxAppends :
      SecondPublished(k) ~>
        /\ ConsumeReturned(Consumer) /\ Len(appended[1]) > k
        /\ IsPrefix(appended[1][k], Deref(fr[Consumer].ret).Content)
        /\ Contains(Deref(fr[Consumer].ret).Content, appended[1][k] \o appended[1][k + 1])

\* C13 amended: after Publish(s, c1) and then Publish(s, c2) by one producer,
\* a consumer that keeps calling Consume on s eventually gets a snapshot that
\* starts with the text accumulated before c1, immediately followed by c1's
\* content and then c2's.
C13_ConsumeContainsBoth ==
    \A k \in 1..MaxAppends :
      SecondPublished(k) ~>
        /\ ConsumeReturned(Consumer) /\ Len(appended[1]) > k
        /\ IsPrefix(Flatten(SubSeq(appended[1], 1, k + 1)), Deref(fr[Consumer].ret).Content)

\* Consume returned "aba" after the publishes of "a", "b" and "a": the
\* snapshot holds "b" followed by "a" but starts with the earlier "a".
C13_Witness ==
    /\ ConsumeReturned(Consumer)
    /\ appended[1] = << <<"a">>, <<"b">>, <<"a">> >>
    /\ Deref(fr[Consumer].ret).Content = <<"a", "b", "a">>

\* ---------------------------------------------------------------------
\* Manager.Trigger (pkg/command): the goroutine that executes one command and
\* writes its chunks to the channel out.
MaxEvents == 2

\* out := make(chan botcore.StreamChunk, 1)
ChanCap == 1

\* What a command does while it executes: it writes text to its output, calls
\* ctx.SetResponsePayload or calls ctx.SetNoResponse.
Events == {"a", "b", "SetResponsePayload", "SetNoResponse"}

\* What Trigger is called with.  A Manager without factory ("uninitialized");
\* or update.Text: nothing, something that is no command, or a command with
\* what it does and whether ExecuteContext returns an error (next: the event
\* the execution has come to; go: the goroutines the command has started,
\* none here).
Commands ==
    {[kind |-> k, events |-> <<>>, err |-> FALSE, next |-> 1, go |-> <<>>] :
       k \in {"uninitialized", "empty", "unrecognized"}}
    \cup {[kind |-> "command", events |-> e, err |-> x, next |-> 1, go |-> <<>>] :
            e \in UNION {[1..n -> Events] : n \in 0..MaxEvents}, x \in BOOLEAN}

\* A PipelineFunc whose goroutine closes its channel without sending.
ClosedPipeline == [kind |-> "closed", events |-> <<>>, err |-> FALSE, next |-> 1, go |-> <<>>]

\* A pipeline whose Trigger returns nil: a nil PipelineFunc, or a Chain that
\* has neither a matching route nor a default handler.
NilPipeline == [kind |-> "nil", events |-> <<>>, err |-> FALSE, next |-> 1, go |-> <<>>]

\* The texts of the chunks Trigger makes up itself.
UninitializedText == <<"i">>
PromptText == <<"p">>
UnrecognizedText == <<"u">>
ErrorText == <<"e">>

\* out <- botcore.StreamChunk{Content: fmt.Sprintf("... %v\n", err)}
ErrorChunkMutant == StreamChunk(ErrorText, TRUE, NoPayload)
ErrorChunk == StreamChunk(ErrorText, FALSE, NoPayload)

\* StreamWriter.Write, ExecutionContext.SetResponsePayload, ExecutionContext.SetNoResponse
EventChunk(ev) ==
    IF ev = "SetResponsePayload" THEN StreamChunk(<<>>, TRUE, Card)
    ELSE IF ev = "SetNoResponse" THEN StreamChunk(<<>>, TRUE, NoResponse)
    ELSE StreamChunk(<<ev>>, FALSE, NoPayload)

\* signalOnce.Do(func() { out <- chunk }): the chunks it sends
signalOnceMutant(done, chunk) == <<chunk>>
signalOnce(done, chunk) == IF done THEN <<>> ELSE <<chunk>>

\* Everything that is not the channel or Trigger's goroutine.
otherVars == <<sessions, msgIndex, sess, nextID, now, fallback, pc, fr, first,
               appended, calls, marked, scn, log, finishSeen>>

\* out <- chunk, for the chunks of seq (none or one); blocks while out is full
Send(seq) ==
    /\ Len(outCh) + Len(seq) <= ChanCap
    /\ outCh' = outCh \o seq
    /\ emitted' = emitted \o seq

\* ExecuteContext has returned.
Executed == cmd.next > Len(cmd.events)

\* Trigger(update, streamID): out is made and the goroutine started.
Trigger(c) ==
    /\ chState = "none"
    /\ cmd' = c
    /\ chState' = IF c.kind = "command" THEN "exec"
                  ELSE IF c.kind = "closed" THEN "closing" ELSE "reject"
    /\ outCh' = <<>> /\ emitted' = <<>> /\ once' = NewOnce /\ first' = Nil

\* if m == nil || m.factory == nil { out <- StreamChunk{Content: ..., IsFinal: true}; return }
\* if !parsed.IsCommand { out <- StreamChunk{Content: ..., IsFinal: true}; return }
TriggerReject ==
    /\ chState = "reject"
    /\ Send(<<StreamChunk(IF cmd.kind = "uninitialized" THEN UninitializedText
                          ELSE IF cmd.kind = "empty" THEN PromptText ELSE UnrecognizedText,
                          TRUE, NoPayload)>>)
    /\ chState' = "closing"
    /\ UNCHANGED <<cfgVars, cmdVars, tallyVars, cmd, once, otherVars>>

\* signalOnce.Do(func() { out <- chunk }), called by goroutine self, one step
\* of it.  Having taken the Once's mutex, the caller finds that the function
\* has run and returns, or goes on to run it; it runs the function, the send,
\* holding the mutex, which it releases with the Once done.
Do(self, chunk) ==
    IF once.m = self
    THEN Send(<<chunk>>) /\ once' = [done |-> TRUE, m |-> 0]
    ELSE /\ once.m = 0
         /\ Send(<<>>)
         /\ once' = IF signalOnce(once.done, chunk) = <<>> THEN once
                    ELSE [once EXCEPT !.m = self]

\* The step Do(self, chunk) takes is the last of the call: Do returns.
DoReturns(self, chunk) ==
    once.m = self \/ signalOnce(once.done, chunk) = <<>>

\* Trigger's own goroutine, as a holder of the Once's mutex.
TriggerGoroutine == 1

\* rootCmd.ExecuteContext(ctx): the command's next write, or a step of its next
\* signal
TriggerExec ==
    /\ chState = "exec" /\ ~Executed
    /\ LET ev == cmd.events[cmd.next]
           signal == ev \in {"SetResponsePayload", "SetNoResponse"}
       IN IF signal
          THEN /\ Do(TriggerGoroutine, EventChunk(ev))
               /\ cmd' = IF DoReturns(TriggerGoroutine, EventChunk(ev))
                         THEN [cmd EXCEPT !.next = @ + 1] ELSE cmd
          ELSE /\ Send(<<EventChunk(ev)>>)
               /\ once' = once
               /\ cmd' = [cmd EXCEPT !.next = @ + 1]
    /\ UNCHANGED <<cfgVars, cmdVars, tallyVars, chState, otherVars>>

\* if err := rootCmd.ExecuteContext(ctx); err != nil { out <- StreamChunk{Content: ...} }
TriggerError ==
    /\ chState = "exec" /\ Executed /\ cmd.err
    /\ Send(<<ErrorChunk>>)
    /\ chState' = "finish"
    /\ UNCHANGED <<cfgVars, cmdVars, tallyVars, cmd, once, otherVars>>

\* signalOnce.Do(func() { out <- StreamChunk{Content: "", IsFinal: true} }),
\* one step of it
TriggerFinal ==
    /\ \/ chState = "finish"
       \/ chState = "exec" /\ Executed /\ ~cmd.err
    /\ LET chunk == StreamChunk(<<>>, TRUE, NoPayload) IN
         /\ Do(TriggerGoroutine, chunk)
         /\ chState' = IF DoReturns(TriggerGoroutine, chunk) THEN "closing" ELSE chState
    /\ UNCHANGED <<cfgVars, cmdVars, tallyVars, cmd, otherVars>>

\* A goroutine the command started calls ctx.SetResponsePayload or
\* ctx.SetNoResponse, at any time after its start: one step of the Do call.
\* It ends having sent its chunk or having sent nothing.
GoSignal(g) ==
    /\ chState \in {"exec", "finish", "closing", "closed"}
    /\ g \in 1..Len(cmd.go)
    /\ cmd.go[g].pc \in {"call", "f"}
    /\ LET chunk == EventChunk(cmd.go[g].ev) IN
         /\ Do(TriggerGoroutine + g, chunk)
         /\ cmd' = [cmd EXCEPT !.go[g].pc =
                      IF once.m = TriggerGoroutine + g THEN "sent"
                      ELSE IF DoReturns(TriggerGoroutine + g, chunk) THEN "skipped" ELSE "f"]
    /\ UNCHANGED <<cfgVars, cmdVars, tallyVars, chState, otherVars>>

\* defer close(out)
TriggerClose ==
    /\ chState = "closing"
    /\ chState' = "closed"
    /\ UNCHANGED <<cfgVars, cmdVars, tallyVars, outCh, cmd, once, emitted, otherVars>>

TriggerRun == TriggerReject \/ TriggerExec \/ TriggerError \/ TriggerFinal \/ TriggerClose

\* for chunk := range manager.Trigger(update, "stream-1") { ... }
Range ==
    /\ outCh # <<>>
    /\ outCh' = Tail(outCh)
    /\ UNCHANGED <<cfgVars, cmdVars, tallyVars, cmd, once, chState, emitted, otherVars>>

\* A caller that triggers one command and keeps receiving.
NextTrigger ==
    \/ \E c \in Commands : Trigger(c) /\ UNCHANGED <<cfgVars, cmdVars, tallyVars, mgrVars, sess, now, fallback, pc, fr,
                                                       appended, calls, histVars>>
    \/ TriggerRun
    \/ Range

SpecTrigger == Init /\ [][NextTrigger]_vars

\* Number of goroutines a command starts.
MaxGoroutines == 2

\* A goroutine of the command calls ctx.SetResponsePayload or ctx.SetNoResponse;
\* it is about to make the call.
Goroutines == [ev : {"SetResponsePayload", "SetNoResponse"}, pc : {"call"}]

\* The commands, each with the goroutines it starts; they run beside the
\* command's own writes and signals, and on after ExecuteContext has returned.
ConcurrentCommands ==
    {[c EXCEPT !.go = g] :
       c \in {d \in Commands : d.kind = "command"},
       g \in UNION {[1..n -> Goroutines] : n \in 1..MaxGoroutines}}

\* A caller that triggers one command, which signals from its goroutines too,
\* and keeps receiving.
NextConcurrent ==
    \/ \E c \in Commands \cup ConcurrentCommands :
         Trigger(c) /\ UNCHANGED <<cfgVars, cmdVars, tallyVars, mgrVars, sess, now, fallback, pc, fr,
                                    appended, calls, histVars>>
    \/ TriggerRun
    \/ \E g \in 1..MaxGoroutines : GoSignal(g)
    \/ Range

SpecConcurrent == Init /\ [][NextConcurrent]_vars

\* ---------------------------------------------------------------------
\* Bot.handlePost, Bot.Initial and the detached Bot.consumePipeline.  The
\* bot's pipeline is Manager.Trigger, or a PipelineFunc that closes its channel
\* at once.
Handler == "t1"
Detached == "t2"

\* History: the text accumulated for the request's stream when it arrives.
Before(streamID, msgID) ==
    LET s == IF streamID # 0 THEN streamID ELSE GetStreamIDByMsg(msgID) IN
      IF s \in sessions THEN sess[s].Accumulated ELSE <<>>

\* http.Error(w, text, status)
HttpError(text, status) == [status |-> status, body |-> <<[plain |-> text]>>]

\* handlePost, the checks before the dispatch: the http.Error text, or
\* nothing when the request passes
PostRejection(req) ==
    IF ~(req.sig /\ req.ts /\ req.nonce) THEN "missing parameters"
    ELSE IF req.body = "undecodable" THEN "invalid request body"
    ELSE IF req.body = "noencrypt" THEN "missing encrypt"
    ELSE IF ~req.decrypt THEN "bad request"
    ELSE ""

\* if b == nil || b.Crypto == nil || b.Sessions == nil
Misconfigured == bot.Crypto = "nil" \/ bot.Sessions = "nil"

\* http.Error(w, "server misconfigured", http.StatusInternalServerError); return
PostMisconfigured(p, f0) ==
    Land(p, [f0 EXCEPT !.op = "handlePost",
                       !.resp = Ptr(HttpError("server misconfigured", 500))], "done")

\* if b == nil || b.Crypto == nil || b.Sessions == nil { 500 }
\* b.Cleanup(): now := time.Now()    (the call's first step)
HandlePostFrom(p, f0, msgType, streamID, msgID) ==
    /\ Begin(p)
    /\ IF Misconfigured THEN PostMisconfigured(p, f0)
       ELSE Land(p, [f0 EXCEPT !.op = IF msgType = "stream" THEN "Refresh" ELSE "Initial",
                               !.sid = streamID, !.msg = msgID, !.cnow = now,
                               !.before = Before(streamID, msgID)], "postCleanup")
    /\ UNCHANGED <<cfgVars, cmdVars, tallyVars, pipeVars, mgrVars, now, fallback, appended, calls, histVars>>

\* Cleanup: m.mu.Lock(); for ... { ... }; m.mu.Unlock(), with the time read
\* when handlePost called it; then the checks of the request: a request that
\* fails one is answered with 400
PostCleanup(p) ==
    /\ pc[p] = "postCleanup"
    /\ LET r == CleanupLoop(sessions, sessions, msgIndex, fr[p].cnow) IN
         /\ sessions' = r.sessions
         /\ msgIndex' = r.msgIndex
    /\ IF fr[p].op = "handlePost"
       THEN Land(p, [fr[p] EXCEPT !.resp =
                       Ptr(HttpError(PostRejection(Deref(fr[p].req)), 400))], "done")
       ELSE Land(p, fr[p], "postDispatch")
    /\ UNCHANGED <<cfgVars, cmdVars, tallyVars, pipeVars, sess, nextID, now, fallback, appended, calls, histVars>>

\* handlePost on a request that passes every check before the dispatch
HandlePost(p, msgType, streamID, msgID) == HandlePostFrom(p, Frame0, msgType, streamID, msgID)

\* Initial: if b.Adapter == nil { return ..., errors.New("adapter not configured") }
\*          update, err := b.Adapter.Normalize(msg); if err != nil { return ..., err }
NormalizeError == IF bot.Adapter = "nil" THEN "adapter not configured" ELSE "normalize"

\* if msg.MsgType == "stream" { ... Refresh } else { ... Initial }, Initial
\* going on to CreateOrGet whatever the adapter
PostDispatchMutant(p) ==
    /\ pc[p] = "postDispatch"
    /\ IF fr[p].op = "Refresh"
       THEN RefreshStart(p, fr[p], fr[p].sid, fr[p].msg)
       ELSE CreateOrGetIndex(p, fr[p]) /\ UNCHANGED <<cfgVars, cmdVars, tallyVars, log, finishSeen>>
    /\ UNCHANGED <<cfgVars, cmdVars, tallyVars, pipeVars, mgrVars, sess, now, fallback, appended, calls, marked, scn>>

\* if msg.MsgType == "stream" { resp, err = b.Refresh(...) } else { resp, err = b.Initial(...) }
\* Initial: the adapter checks, then session, isNew := b.Sessions.CreateOrGet(msg)
\* (the call's first step)
PostDispatch(p) ==
    /\ pc[p] = "postDispatch"
    /\ IF fr[p].op = "Refresh"
       THEN RefreshStart(p, fr[p], fr[p].sid, fr[p].msg)
       ELSE IF bot.Adapter # "MessageAdapter"
       THEN /\ Land(p, [fr[p] EXCEPT !.err = NormalizeError], "done")
            /\ UNCHANGED <<cfgVars, cmdVars, tallyVars, log, finishSeen>>
       ELSE CreateOrGetIndex(p, fr[p]) /\ UNCHANGED <<cfgVars, cmdVars, tallyVars, log, finishSeen>>
    /\ UNCHANGED <<cfgVars, cmdVars, tallyVars, pipeVars, mgrVars, sess, now, fallback, appended, calls, marked, scn>>

\* b.Sessions.SetUpdate(session.StreamID, update)     (the call's first step)
InitialSetUpdate(p) ==
    /\ pc[p] = "initSetUpdate"
    /\ SetUpdateGet(p, [fr[p] EXCEPT !.sid = fr[p].sp, !.update = Ptr(MessageUpdate)])
    /\ UNCHANGED <<cfgVars, cmdVars, tallyVars, pipeVars, mgrVars, sess, now, fallback, appended, calls, histVars>>

\* initialChunk := StreamChunk{Content: "", IsFinal: false}
\* if isNew && b.Pipeline != nil { outCh := b.Pipeline.Trigger(update, session.StreamID)
\*   if outCh != nil { select ... } }
\* reply, err := b.buildReply(update, session.StreamID, initialChunk)
InitialTriggerOf(p, pipelines) ==
    /\ pc[p] = "initTrigger"
    /\ LET f == [fr[p] EXCEPT !.sid = fr[p].sp] IN
         IF f.isNew /\ bot.Pipeline # "nil"
         THEN \E c \in pipelines :
                IF c # NilPipeline
                THEN /\ Trigger(c)
                     /\ Land(p, f, "initSelect")
                     /\ UNCHANGED <<cfgVars, cmdVars, tallyVars, log, finishSeen>>
                ELSE /\ Reply(p, f, buildReply(f.sid, f.initialChunk))
                     /\ UNCHANGED <<cfgVars, cmdVars, tallyVars, pipeVars>>
         ELSE /\ Reply(p, f, buildReply(f.sid, f.initialChunk))
              /\ UNCHANGED <<cfgVars, cmdVars, tallyVars, pipeVars>>
    /\ UNCHANGED <<cfgVars, cmdVars, tallyVars, mgrVars, sess, now, fallback, appended, calls, marked, scn>>

\* Initial with a pipeline that runs any of the commands, closes its channel
\* at once, or returns no channel
InitialTrigger(p) == InitialTriggerOf(p, Commands \cup {ClosedPipeline, NilPipeline})

\* select { case chunk, ok := <-outCh: if ok { ...
InitialReceive(p) ==
    /\ pc[p] = "initSelect"
    /\ outCh # <<>>
    /\ outCh' = Tail(outCh)
    /\ Land(p, [fr[p] EXCEPT !.chunk = Head(outCh), !.ok = TRUE], "initGot")
    /\ first' = Ptr(Head(outCh))
    /\ UNCHANGED <<cfgVars, cmdVars, tallyVars, cmd, once, chState, emitted, mgrVars, sess, now, fallback,
                   appended, calls, histVars>>

\* } else { b.Sessions.MarkFinished(session.StreamID); initialChunk = StreamChunk{"", true} }
InitialClosed(p) ==
    /\ pc[p] = "initSelect"
    /\ outCh = <<>> /\ chState = "closed"
    /\ Land(p, [fr[p] EXCEPT !.ok = FALSE,
                             !.initialChunk = StreamChunk(<<>>, TRUE, NoPayload)], "mfGet")
    /\ UNCHANGED <<cfgVars, cmdVars, tallyVars, pipeVars, mgrVars, sess, now, fallback, appended, calls, histVars>>

\* case <-time.After(200 * time.Millisecond):   nothing arrived within the window
InitialTimeout(p) ==
    /\ pc[p] = "initSelect"
    /\ outCh = <<>> /\ chState # "closed"
    /\ Land(p, [fr[p] EXCEPT !.ok = FALSE], "initSpawn")
    /\ UNCHANGED <<cfgVars, cmdVars, tallyVars, pipeVars, mgrVars, sess, now, fallback, appended, calls, histVars>>

InitialGotMutant(p) ==
    /\ pc[p] = "initGot"
    /\ IF fr[p].chunk.Payload = NoResponse THEN Land(p, fr[p], "mfGet")
       ELSE Land(p, [fr[p] EXCEPT !.initialChunk = fr[p].chunk],
                 IF fr[p].chunk.IsFinal THEN "mfGet" ELSE "initSpawn")
    /\ UNCHANGED <<cfgVars, cmdVars, tallyVars, pipeVars, mgrVars, sess, now, fallback, appended, calls, histVars>>

\* if chunk.Payload == botcore.NoResponse { b.Sessions.MarkFinished(...) ...
\* if chunk.Payload != nil { if chunk.IsFinal { b.Sessions.MarkFinished(...) } ...
\* b.Sessions.Accumulate(session.StreamID, chunk.Content)     (the call's first step)
InitialGot(p) ==
    /\ pc[p] = "initGot"
    /\ IF fr[p].chunk.Payload = NoResponse THEN Land(p, fr[p], "mfGet")
       ELSE IF fr[p].chunk.Payload # NoPayload
            THEN Land(p, fr[p], IF fr[p].chunk.IsFinal THEN "mfGet" ELSE "initSpawn")
       ELSE AccumulateGet(p, fr[p])
    /\ UNCHANGED <<cfgVars, cmdVars, tallyVars, pipeVars, mgrVars, sess, now, fallback, appended, calls, histVars>>

\* initialChunk = chunk; if chunk.IsFinal { b.Sessions.MarkFinished(session.StreamID) }
InitialAfterAccumulate(p) ==
    /\ pc[p] = "initAfterAccumulate"
    /\ Land(p, [fr[p] EXCEPT !.initialChunk = fr[p].chunk],
            IF fr[p].chunk.IsFinal THEN "mfGet" ELSE "initSpawn")
    /\ UNCHANGED <<cfgVars, cmdVars, tallyVars, pipeVars, mgrVars, sess, now, fallback, appended, calls, histVars>>

InitialNoResponseMutant(p) ==
    /\ pc[p] = "initNoResponse"
    /\ Reply(p, fr[p], buildReply(fr[p].sid, fr[p].chunk))
    /\ UNCHANGED <<cfgVars, cmdVars, tallyVars, pipeVars, mgrVars, sess, now, fallback, appended, calls, marked, scn>>

\* return EncryptedResponse{}, ErrNoResponse
InitialNoResponse(p) ==
    /\ pc[p] = "initNoResponse"
    /\ Land(p, [fr[p] EXCEPT !.err = "ErrNoResponse"], "done")
    /\ UNCHANGED <<cfgVars, cmdVars, tallyVars, pipeVars, mgrVars, sess, now, fallback, appended, calls, histVars>>

\* go b.consumePipeline(outCh, msg.MsgID, session.StreamID)
\* reply, err := b.buildReply(update, session.StreamID, chunk / initialChunk)
InitialSpawn(p) ==
    /\ pc[p] = "initSpawn"
    /\ pc[Detached] = "idle"
    /\ LET f == fr[p]
           reply == buildReply(f.sid, IF f.ok /\ f.chunk.Payload # NoPayload
                                      THEN f.chunk ELSE f.initialChunk)
       IN /\ pc' = [pc EXCEPT ![p] = "done", ![Detached] = "cpRecv"]
          /\ fr' = [fr EXCEPT ![p] = Returned([f EXCEPT !.reply = Ptr(reply)]),
                              ![Detached] = [Frame0 EXCEPT !.op = "consumePipeline",
                                                           !.sid = f.sid, !.msg = f.msg]]
    /\ UNCHANGED <<cfgVars, cmdVars, tallyVars, pipeVars, mgrVars, sess, now, fallback, appended, calls, histVars>>

\* reply, err := b.buildReply(update, session.StreamID, initialChunk)
InitialReply(p) ==
    /\ pc[p] = "initReply"
    /\ Reply(p, fr[p], buildReply(fr[p].sid, fr[p].initialChunk))
    /\ UNCHANGED <<cfgVars, cmdVars, tallyVars, pipeVars, mgrVars, sess, now, fallback, appended, calls, marked, scn>>

Initial(p) ==
    \/ InitialSetUpdate(p) \/ SetUpdate(p)
    \/ InitialTrigger(p) \/ InitialReceive(p) \/ InitialClosed(p) \/ InitialTimeout(p)
    \/ InitialGot(p) \/ InitialAfterAccumulate(p) \/ InitialNoResponse(p)
    \/ InitialSpawn(p) \/ InitialReply(p)

\* for chunk := range outCh { if <skipped> { continue }; b.pushStreamChunk(streamID, msgID, chunk) }
ConsumePipelineReceive(p) ==
    /\ pc[p] = "cpRecv"
    /\ outCh # <<>>
    /\ outCh' = Tail(outCh)
    /\ IF Skipped(Head(outCh)) THEN Land(p, fr[p], "cpRecv")
       ELSE Land(p, [fr[p] EXCEPT !.chunk = Head(outCh)], "pubGet")
    /\ UNCHANGED <<cfgVars, cmdVars, tallyVars, cmd, once, chState, emitted, first, mgrVars, sess, now, fallback,
                   appended, calls, histVars>>

\* the range loop ends when outCh is closed and empty
ConsumePipelineClosed(p) ==
    /\ pc[p] = "cpRecv"
    /\ outCh = <<>> /\ chState = "closed"
    /\ Land(p, fr[p], "done")
    /\ UNCHANGED <<cfgVars, cmdVars, tallyVars, pipeVars, mgrVars, sess, now, fallback, appended, calls, histVars>>

consumePipeline(p) ==
    \/ ConsumePipelineReceive(p) \/ ConsumePipelineClosed(p)
    \/ PushPublishGet(p) \/ Publish(p) \/ PushAfterPublish(p)
    \/ BotMarkFinishedGet(p) \/ MarkFinished(p)

\* json.Marshal of what buildReply returned; struct{}{} marshals to {}
Marshal(reply) ==
    IF reply.payload = NoPayload
    THEN [msgtype |-> "stream",
          stream |-> [id |-> reply.id, content |-> reply.content, finish |-> reply.finish]]
    ELSE IF reply.payload = NoResponse THEN [object |-> "{}"]
    ELSE [object |-> reply.payload]

\* Crypto.EncryptResponse: the envelope around the encrypted JSON of the reply
EncryptResponse(reply) == [encrypt |-> <<"aes", Marshal(reply)>>]

\* handlePost, after Initial / Refresh returned: the HTTP response
\* if err == ErrNoResponse { w.WriteHeader(http.StatusOK); return } ... w.Write(data)
handlePostResponse(f) ==
    IF f.resp # Nil THEN Deref(f.resp)
    ELSE IF f.err = "ErrNoResponse" THEN [status |-> 200, body |-> <<>>]
    ELSE IF f.err # "nil" THEN [status |-> 500, body |-> <<[plain |-> "internal error"]>>]
    ELSE [status |-> 200, body |-> <<EncryptResponse(Deref(f.reply))>>]

\* The platform posts the message "m1", possibly again, and refresh
\* callbacks for the stream it was told, one request at a time; no session
\* reaches its TTL meanwhile.
NextInitial ==
    \/ HandlePost(Handler, "text", 0, "m1")
    \/ \E s \in sessions : HandlePost(Handler, "stream", s, "m1")
    \/ PostCleanup(Handler)
    \/ PostDispatch(Handler)
    \/ CreateOrGet(Handler)
    \/ Initial(Handler)
    \/ Accumulate(Handler)
    \/ Consume(Handler)
    \/ Refresh(Handler)
    \/ BotMarkFinishedGet(Handler)
    \/ MarkFinished(Handler)
    \/ consumePipeline(Detached)
    \/ TriggerRun

SpecInitial == Init /\ [][NextInitial]_vars

\* The steps of a request once it has arrived.
HandlerStep(p) ==
    \/ PostCleanup(p) \/ PostDispatch(p) \/ CreateOrGet(p) \/ Initial(p) \/ Accumulate(p)
    \/ Consume(p) \/ Refresh(p) \/ BotMarkFinishedGet(p) \/ MarkFinished(p)

\* Every goroutine that can take a step is scheduled eventually; the platform
\* need not send a further request.
SpecInitialLive ==
    /\ SpecInitial
    /\ WF_vars(TriggerRun)
    /\ WF_vars(HandlerStep(Handler))
    /\ WF_vars(consumePipeline(Detached))

\* The text of the first k chunks the pipeline sent.
EmittedText(k) == Flatten([i \in 1..k |-> emitted[i].Content])

\* Initial received a text chunk within its window.
FirstIsText == first # Nil /\ Deref(first).Payload = NoPayload

\* The chunk Consume returned to the Refresh the handler runs.
Refreshed ==
    IF fr[Handler].op = "Refresh" /\ fr[Handler].ret # Nil /\ pc[Handler] # "done"
    THEN fr[Handler].ret ELSE Nil

\* C14: when Initial received a text chunk in its window, it appends the
\* chunk's content to the (empty) accumulated text while the queue is empty and
\* the detached consumer has not been started; from then on every queued
\* snapshot is the first chunk's content followed by the contents of at least
\* one later chunk of the pipeline, in order, and every chunk Consume returns
\* to a Refresh is the first chunk's content followed by those of later chunks
\* in order.
C14_FirstChunkAccumulatedOnce ==
    /\ [](FirstIsText =>
            /\ \A s \in sessions : \A i \in 1..Len(sess[s].queue) :
                 \E k \in 2..Len(emitted) : sess[s].queue[i].Content = EmittedText(k)
            /\ Refreshed # Nil =>
                 \E k \in 1..Len(emitted) : Deref(Refreshed).Content = EmittedText(k))
    /\ [][(pc[Handler] = "accLock" /\ pc'[Handler] # "accLock") =>
            /\ pc[Detached] = "idle"
            /\ sess'[fr[Handler].sp].queue = <<>>
            /\ sess'[fr[Handler].sp].Accumulated = Deref(first).Content]_vars

\* Initial replied "a", the detached consumer published "b", and a Refresh got
\* the snapshot "ab" from Consume.
C14_Witness ==
    /\ FirstIsText /\ Deref(first).Content = <<"a">>
    /\ Len(emitted) >= 2 /\ emitted[2].Content = <<"b">>
    /\ Refreshed # Nil /\ Deref(Refreshed).Content = <<"a", "b">>

\* C15: every stream-shaped reply of Initial and Refresh carries the complete
\* text accumulated for its stream at a moment between the request's arrival
\* and the reply: at least the text accumulated when the request arrived, at
\* most the text accumulated now.
C15_ReplyCarriesAccumulated ==
    LET f == fr[Handler] IN
      (pc[Handler] = "done" /\ f.op \in {"Initial", "Refresh"} /\ f.reply # Nil
         /\ Deref(f.reply).payload = NoPayload /\ Deref(f.reply).id # 0) =>
        /\ IsPrefix(f.before, Deref(f.reply).content)
        /\ IsPrefix(Deref(f.reply).content, sess[Deref(f.reply).id].Accumulated)

\* C16: the Initial whose first chunk, received within the window, carries the
\* NoResponse sentinel (and no other request) returns ErrNoResponse with no
\* reply built or encrypted, the session is finished, and handlePost answers
\* 200 with an empty body.
C16_NoResponseFirstChunk ==
    LET f == fr[Handler] IN
      (pc[Handler] = "done" /\ f.op \in {"Initial", "Refresh"}) =>
        /\ (f.op = "Initial" /\ f.isNew /\ first # Nil /\ Deref(first).Payload = NoResponse) =>
             /\ f.err = "ErrNoResponse" /\ f.reply = Nil
             /\ f.sp \in sessions /\ sess[f.sp].Finished
             /\ handlePostResponse(f) = [status |-> 200, body |-> <<>>]
        /\ f.err = "ErrNoResponse" =>
             f.op = "Initial" /\ f.isNew /\ first # Nil /\ Deref(first).Payload = NoResponse

\* The command called SetNoResponse first, and Initial has returned.
C16_Witness ==
    /\ pc[Handler] = "done" /\ fr[Handler].op = "Initial" /\ fr[Handler].isNew
    /\ cmd.kind = "command" /\ cmd.events # <<>> /\ cmd.events[1] = "SetNoResponse"
    /\ first = Ptr(StreamChunk(<<>>, TRUE, NoResponse))
    /\ fr[Handler].err = "ErrNoResponse"

\* C17: handlePost never answers with the encrypted NoResponse sentinel: no
\* reply that Initial or Refresh builds is the sentinel.
C17_SentinelNeverEncrypted ==
    LET f == fr[Handler] IN
      (pc[Handler] = "done" /\ f.op \in {"Initial", "Refresh"}) =>
        handlePostResponse(f).body
          # <<EncryptResponse([NoReply EXCEPT !.payload = NoResponse])>>

\* C18: once Initial has triggered the pipeline, every chunk the pipeline
\* sends is eventually received: the channel ends closed and empty.
C18_PipelineDrained ==
    (chState # "none") ~> (chState = "closed" /\ outCh = <<>>)

\* The positions of the final chunks of a chunk sequence.
Finals(seq) == {i \in 1..Len(seq) : seq[i].IsFinal}

\* The signals a command sends: the positions of its SetResponsePayload and
\* SetNoResponse calls.
Signals(c) == {i \in 1..Len(c.events) : c.events[i] \in {"SetResponsePayload", "SetNoResponse"}}

FirstSignal(c) == CHOOSE i \in Signals(c) : \A j \in Signals(c) : i <= j

\* The goroutines of the command whose signal sent its chunk.
SentBy == {g \in 1..Len(cmd.go) : cmd.go[g].pc = "sent"}

\* C19: the chunks Trigger sends to a consumer that keeps receiving never
\* hold two final chunks, and hold exactly one when the channel is closed.
\* For a command it is the chunk of the SetResponsePayload / SetNoResponse call
\* that fired first: the call of one of its goroutines, which then is the only
\* one that sent anything; otherwise the first call the command made itself;
\* and the empty final chunk of normal completion when no call fired.  Every
\* other call, repeated in the command or concurrent in a goroutine, before or
\* after the channel is closed, sends nothing.
C19_ExactlyOneFinal ==
    /\ Cardinality(Finals(emitted)) <= 1
    /\ Cardinality(SentBy) <= 1
    /\ \A g \in SentBy :
         /\ Finals(emitted) # {}
         /\ \A i \in Finals(emitted) : emitted[i] = EventChunk(cmd.go[g].ev)
    /\ chState = "closed" =>
         /\ Cardinality(Finals(emitted)) = 1
         /\ \A g \in 1..Len(cmd.go) : cmd.go[g].pc # "f"
         /\ (cmd.kind = "command" /\ SentBy = {}) =>
              \A i \in Finals(emitted) :
                emitted[i] = IF Signals(cmd) # {}
                             THEN EventChunk(cmd.events[FirstSignal(cmd)])
                             ELSE StreamChunk(<<>>, TRUE, NoPayload)

\* A command called SetResponsePayload itself, wrote "a" and returned, while
\* one of its goroutines called SetNoResponse and the other SetResponsePayload:
\* the first goroutine fired, the closed channel carried its NoResponse chunk
\* as the only final one, and the other two calls sent nothing.
C19_Witness ==
    /\ chState = "closed" /\ outCh = <<>>
    /\ cmd.events = <<"SetResponsePayload", "a">> /\ ~cmd.err
    /\ Len(cmd.go) = 2
    /\ cmd.go[1] = [ev |-> "SetNoResponse", pc |-> "sent"]
    /\ cmd.go[2] = [ev |-> "SetResponsePayload", pc |-> "skipped"]
    /\ emitted = <<StreamChunk(<<>>, TRUE, NoResponse), StreamChunk(<<"a">>, FALSE, NoPayload)>>

\* C20 as stated: whenever the command's execution returned an error, the
\* chunks of the closed channel end with the error text as a non-final chunk
\* followed by an empty final chunk, also when the command had called
\* SetResponsePayload or SetNoResponse.
C20_ErrorThenFinal ==
    (chState = "closed" /\ cmd.kind = "command" /\ cmd.err) =>
      /\ Len(emitted) >= 2
      /\ emitted[Len(emitted) - 1] = StreamChunk(ErrorText, FALSE, NoPayload)
      /\ emitted[Len(emitted)] = StreamChunk(<<>>, TRUE, NoPayload)

\* C20 amended: whenever the command's execution returned an error, the error
\* text is sent as a non-final chunk after everything the command emitted; an
\* empty final chunk follows it, as the last chunk, iff the command called
\* neither SetResponsePayload nor SetNoResponse, and otherwise the error text
\* is the last chunk before the channel is closed.
C20_ErrorThenFinalUnlessSignalled ==
    (chState = "closed" /\ cmd.kind = "command" /\ cmd.err) =>
      LET n == Len(emitted) IN
        IF Signals(cmd) = {}
        THEN /\ n = Len(cmd.events) + 2
             /\ emitted[n - 1] = StreamChunk(ErrorText, FALSE, NoPayload)
             /\ emitted[n] = StreamChunk(<<>>, TRUE, NoPayload)
        ELSE /\ n = Len(cmd.events) - Cardinality(Signals(cmd)) + 2
             /\ emitted[n] = StreamChunk(ErrorText, FALSE, NoPayload)

\* A command wrote "a", called SetResponsePayload and failed.
C20_Witness ==
    /\ chState = "closed" /\ cmd.err
    /\ cmd.events = <<"a", "SetResponsePayload">>
    /\ emitted = <<StreamChunk(<<"a">>, FALSE, NoPayload), StreamChunk(<<>>, TRUE, Card),
                   StreamChunk(ErrorText, FALSE, NoPayload)>>

\* ---------------------------------------------------------------------
\* Parser.Parse (command/parser.go).  A text is a sequence of characters:
\* the prefix character, '@', a space and a letter.
MaxTextLen == 6

ParserChars == {"/", "@", " ", "a"}
Texts == UNION {[1..n -> ParserChars] : n \in 0..MaxTextLen}
\* Parser.Prefix: unset, the default of NewParser, and a longer one
Prefixes == {<<>>, <<"/">>, <<"/", "/">>}

\* unicode.IsSpace
IsSpace(c) == c = " "

RECURSIVE TrimLeft(_)
TrimLeft(s) == IF s # <<>> /\ IsSpace(Head(s)) THEN TrimLeft(Tail(s)) ELSE s

RECURSIVE TrimRight(_)
TrimRight(s) ==
    IF s # <<>> /\ IsSpace(s[Len(s)]) THEN TrimRight(SubSeq(s, 1, Len(s) - 1)) ELSE s

\* strings.TrimSpace
TrimSpace(s) == TrimRight(TrimLeft(s))

RECURSIVE FieldLen(_)
\* The length of the run of non-space characters s starts with.
FieldLen(s) == IF s = <<>> \/ IsSpace(Head(s)) THEN 0 ELSE 1 + FieldLen(Tail(s))

RECURSIVE Fields(_)
\* strings.Fields: the maximal runs of non-space characters, in order
Fields(s) ==
    IF s = <<>> THEN <<>>
    ELSE IF IsSpace(Head(s)) THEN Fields(Tail(s))
    ELSE <<SubSeq(s, 1, FieldLen(s))>> \o Fields(SubSeq(s, FieldLen(s) + 1, Len(s)))

\* strings.TrimPrefix
TrimPrefix(s, prefix) ==
    IF IsPrefix(prefix, s) THEN SubSeq(s, Len(prefix) + 1, Len(s)) ELSE s

\* strings.IndexRune: the position before the first c of s, -1 when s has none
IndexRune(s, c) ==
    IF \E i \in 1..Len(s) : s[i] = c
    THEN (CHOOSE i \in 1..Len(s) : s[i] = c /\ \A j \in 1..(i - 1) : s[j] # c) - 1
    ELSE -1

\* ParseResult{Raw: text}
NotCommand(text) ==
    [IsCommand |-> FALSE, Tokens |-> <<>>, Raw |-> text, ArgumentRaw |-> <<>>]

CommandTokenMutant(field, prefix) == TrimPrefix(field, prefix)

\* commandToken := strings.TrimPrefix(field, prefix)
\* if idx := strings.IndexRune(commandToken, '@'); idx >= 0 { commandToken = commandToken[:idx] }
CommandToken(field, prefix) ==
    LET commandToken == TrimPrefix(field, prefix)
        idx == IndexRune(commandToken, "@")
    IN IF idx >= 0 THEN SubSeq(commandToken, 1, idx) ELSE commandToken

tokensMutant(commandToken, fields) == <<commandToken>> \o fields

\* tokens = append(tokens, commandToken); if len(fields) > 1 { tokens = append(tokens, fields[1:]...) }
tokens(commandToken, fields) == <<commandToken>> \o Tail(fields)

\* prefix := p.Prefix; if prefix == "" { prefix = "/" }
PrefixOf(p) == IF p.Prefix = <<>> THEN <<"/">> ELSE p.Prefix

\* Parser.Parse
Parse(p, text) ==
    LET trimmed == TrimSpace(text)
        prefix == PrefixOf(p)
        fields == Fields(trimmed)
    IN IF trimmed = <<>> \/ Len(fields) = 0 THEN NotCommand(text)
       ELSE LET field == fields[1] IN
         IF ~IsPrefix(prefix, field) \/ Len(field) <= Len(prefix) THEN NotCommand(text)
         ELSE LET commandToken == CommandToken(field, prefix) IN
           IF commandToken = <<>> THEN NotCommand(text)
           ELSE [IsCommand |-> TRUE,
                 Tokens |-> tokens(commandToken, fields),
                 Raw |-> text,
                 ArgumentRaw |-> IF Len(fields) > 1
                                 THEN TrimSpace(TrimPrefix(trimmed, field)) ELSE <<>>]

\* Everything but the parser.
botVars == <<bot, crypt, exec, tally, outCh, cmd, once, chState, emitted, otherVars>>

\* A parser and a text, before Parse is called on it.
InitParser ==
    /\ NewBot /\ NoTrigger /\ NoCrypt /\ NoExec
    /\ parse \in [Prefix : Prefixes, text : Texts, result : {Nil}]

\* p.Parse(text)
CallParse ==
    /\ parse # Nil /\ parse.result = Nil
    /\ parse' = [parse EXCEPT !.result = Ptr(Parse([Prefix |-> parse.Prefix], parse.text))]
    /\ UNCHANGED <<botVars, storeVars, run, trees, writer>>

SpecParser == InitParser /\ [][CallParse]_vars

\* Parse has returned.
Parsed == parse # Nil /\ parse.result # Nil
\* What it returned, and what it was called with.
Result == Deref(parse.result)
Trimmed == TrimSpace(parse.text)
StartsWithPrefix == IsPrefix(PrefixOf(parse), Trimmed)
\* What follows the prefix in the text's first field.
AfterPrefix == TrimPrefix(Fields(Trimmed)[1], PrefixOf(parse))

\* Tokens[0] is not empty and holds neither '@' nor whitespace.
CleanCommandToken ==
    /\ Result.Tokens # <<>>
    /\ Result.Tokens[1] # <<>>
    /\ \A i \in 1..Len(Result.Tokens[1]) :
         Result.Tokens[1][i] # "@" /\ ~IsSpace(Result.Tokens[1][i])

\* C26 (as stated): a text whose trimmed form is empty or does not start with
\* the prefix is not a command; every other text is a command, and its
\* tokens[0] holds no '@' and no whitespace.
C26_CommandIffStartsWithPrefix ==
    Parsed =>
      IF Trimmed = <<>> \/ ~StartsWithPrefix
      THEN ~Result.IsCommand
      ELSE Result.IsCommand /\ CleanCommandToken

\* What follows the prefix in a trimmed text that starts with it.
Rest == SubSeq(Trimmed, Len(PrefixOf(parse)) + 1, Len(Trimmed))

\* The prefix is followed by nothing, by whitespace or by '@'.
NothingToName == Rest = <<>> \/ IsSpace(Rest[1]) \/ Rest[1] = "@"

\* C26 (amended): a text whose trimmed form is empty or does not start with
\* the prefix is not a command; a text that is a command has a non-empty
\* tokens[0] without '@' and whitespace, which is what follows the prefix in
\* the text up to the first whitespace or '@'; and a text that starts with the
\* prefix is a command if and only if the prefix is not followed by nothing,
\* by whitespace or by '@'.
C26_CommandUnlessNothingFollowsPrefix ==
    Parsed =>
      /\ (Trimmed = <<>> \/ ~StartsWithPrefix) => ~Result.IsCommand
      /\ Result.IsCommand =>
            /\ CleanCommandToken
            /\ IsPrefix(Result.Tokens[1], Rest)
            /\ Len(Result.Tokens[1]) < Len(Rest) =>
                 LET c == Rest[Len(Result.Tokens[1]) + 1] IN IsSpace(c) \/ c = "@"
      /\ (Trimmed # <<>> /\ StartsWithPrefix) => (Result.IsCommand <=> ~NothingToName)

\* "/a@a a" is a command whose tokens are "a" and "a": the mention is cut off.
C26_Witness ==
    /\ Parsed /\ parse.text = <<"/", "a", "@", "a", " ", "a">>
    /\ Result.IsCommand /\ Result.Tokens = << <<"a">>, <<"a">> >>

\* The first field of the trimmed text starts with the prefix and is longer.
FirstFieldHasPrefix ==
    /\ Trimmed # <<>>
    /\ IsPrefix(PrefixOf(parse), Fields(Trimmed)[1])
    /\ Len(Fields(Trimmed)[1]) > Len(PrefixOf(parse))

\* tokens is what follows the prefix in the first field, up to its first '@',
\* and then the remaining fields in their order.
TokensOfFields ==
    /\ Len(Result.Tokens) = Len(Fields(Trimmed))
    /\ IsPrefix(Result.Tokens[1], AfterPrefix)
    /\ \A i \in 1..Len(Result.Tokens[1]) : Result.Tokens[1][i] # "@"
    /\ Len(Result.Tokens[1]) < Len(AfterPrefix) =>
         AfterPrefix[Len(Result.Tokens[1]) + 1] = "@"
    /\ \A i \in 2..Len(Result.Tokens) : Result.Tokens[i] = Fields(Trimmed)[i]

\* C27 (as stated): Parse reports a command if and only if the first field of
\* the trimmed text starts with the prefix and is longer than it; then tokens
\* is that field without the prefix and without everything from its first '@',
\* followed by the remaining fields in order.
C27_CommandIffFirstFieldLonger ==
    Parsed =>
      /\ Result.IsCommand <=> FirstFieldHasPrefix
      /\ Result.IsCommand => TokensOfFields

\* C27 (amended): Parse reports a command if and only if the first field of
\* the trimmed text starts with the prefix, is longer than it and has another
\* character than '@' right after it; then tokens is that field without the
\* prefix and without everything from its first '@', followed by the remaining
\* fields in order.
C27_CommandIffTokenNotEmpty ==
    Parsed =>
      /\ Result.IsCommand <=> (FirstFieldHasPrefix /\ AfterPrefix[1] # "@")
      /\ Result.IsCommand => TokensOfFields

\* " /a  @ a" trimmed has the fields "/a", "@" and "a".
C27_Witness ==
    /\ Parsed /\ parse.text = <<"/", "a", " ", "@", " ", "a">>
    /\ Result.IsCommand /\ Result.Tokens = << <<"a">>, <<"@">>, <<"a">> >>

\* ---------------------------------------------------------------------
\* Manager.Trigger, call by call: MaxCalls concurrent calls on one Manager
\* that NewManager built with a command factory and a store.  Each call has
\* its goroutine, its channel out and the command tree its factory call
\* returned.  The command tree is the caller's: a root command named "e" that
\* takes its first argument as the value of a flag and writes that value to
\* its output; whether its execution fails is open.

\* What a Manager's parser is: parser: NewParser()
NewParser == [Prefix |-> <<"/">>]

\* rootCmd.Name()
RootName == <<"e">>

\* update.Text of call c: blank texts, texts that are no commands, and commands
\* with and without the root command's name and an argument of the call's own.
ManagerTexts(c) ==
    {<<>>, <<" ">>, <<" ", "a", " ">>, <<"/", "@", "a">>,
     <<"/", "e">>, <<"/", "e", " ", ToString(c)>>, <<"/", "E", " ", ToString(c)>>,
     <<"/", ToString(c)>>}

\* unicode.ToLower, on the letters of the texts
Lower(s) == [i \in 1..Len(s) |-> IF s[i] = "E" THEN "e" ELSE s[i]]

\* strings.EqualFold
EqualFold(s, t) == Lower(s) = Lower(t)

\* fmt.Sprintf(".. %s\n.. /help", parsed.Raw): what follows the quoted input
TryHelpText == <<"h">>

RejectChunkMutant(text, parsed) ==
    StreamChunk(IF TrimSpace(text) = <<>> THEN PromptText
                ELSE UnrecognizedText \o TrimSpace(text) \o TryHelpText, TRUE, NoPayload)

\* if strings.TrimSpace(update.Text) == "" { StreamChunk{Content: "..", IsFinal: true} }
\* else { StreamChunk{Content: fmt.Sprintf(".. %s\n..", parsed.Raw), IsFinal: true} }
RejectChunk(text, parsed) ==
    StreamChunk(IF TrimSpace(text) = <<>> THEN PromptText
                ELSE UnrecognizedText \o parsed.Raw \o TryHelpText, TRUE, NoPayload)

WriteMutant(p) == <<StreamChunk(p, FALSE, NoPayload)>>

\* StreamWriter.Write(p): the chunks it sends to w.Ch
Write(p) == IF Len(p) = 0 THEN <<>> ELSE <<StreamChunk(p, FALSE, NoPayload)>>

\* args := parsed.Tokens
\* if len(args) > 0 && strings.EqualFold(args[0], rootCmd.Name()) { args = args[1:] }
Args(parsed) ==
    IF Len(parsed.Tokens) > 0 /\ EqualFold(parsed.Tokens[1], RootName)
    THEN Tail(parsed.Tokens) ELSE parsed.Tokens

\* The command tree a factory call returns: its output is not yet redirected,
\* it has no arguments and its flag has the default value.  The tree the
\* factory builds for call c is trees[c], a new object at each call.
NewTree == [out |-> 0, args |-> <<>>, flag |-> <<>>]

\* The tree's flag parsing: the flag's value is the first argument.
ParseFlags(args) == IF args = <<>> THEN <<>> ELSE args[1]

\* ch <- chunk for the chunks of seq (none or one), on the channel of call d
CanSend(d, seq) == Len(run[d].out) + Len(seq) <= ChanCap
Sent(r, d, seq) == [r EXCEPT ![d].out = @ \o seq, ![d].sent = @ \o seq]

\* Trigger(update, streamID): out := make(chan StreamChunk, 1); go func() {
\*   if m == nil || m.factory == nil { ... }
\*   parsed := m.parser.Parse(update.Text)
CallTrigger(c, text) ==
    /\ run[c].state = "none"
    /\ IF run[c].factory = "nil"
       THEN run' = [run EXCEPT ![c].state = "uninitialized", ![c].text = text]
       ELSE LET parsed == Parse(NewParser, text) IN
         run' = [run EXCEPT ![c] =
                   [NoRun EXCEPT !.state = IF parsed.IsCommand THEN "factory" ELSE "reject",
                                 !.text = text, !.parsed = Ptr(parsed)]]
    /\ UNCHANGED <<trees, parse, writer, storeVars, botVars>>

\* out <- botcore.StreamChunk{Content: "Error: Command Manager not initialized", IsFinal: true}
UninitializedChunk == StreamChunk(UninitializedText, TRUE, NoPayload)

\* if m == nil || m.factory == nil { out <- ...; return }
ManagerUninitialized(c) ==
    /\ run[c].state = "uninitialized"
    /\ CanSend(c, <<UninitializedChunk>>)
    /\ run' = [Sent(run, c, <<UninitializedChunk>>) EXCEPT ![c].state = "closing"]
    /\ UNCHANGED <<trees, parse, writer, storeVars, botVars>>

\* if !parsed.IsCommand { out <- ...; return }
ManagerReject(c) ==
    /\ run[c].state = "reject"
    /\ LET seq == <<RejectChunk(run[c].text, Deref(run[c].parsed))>> IN
         /\ CanSend(c, seq)
         /\ run' = [Sent(run, c, seq) EXCEPT ![c].state = "closing"]
    /\ UNCHANGED <<trees, parse, writer, storeVars, botVars>>

ManagerFactoryMutant(c) ==
    /\ run[c].state = "factory"
    /\ trees' = [trees EXCEPT ![1].out = c]
    /\ run' = [run EXCEPT ![c].rootCmd = 1, ![c].factoryCalls = @ + 1, ![c].state = "load"]
    /\ UNCHANGED <<parse, writer, storeVars, botVars>>

\* rootCmd := m.factory(); writer := NewStreamWriter(out)
\* rootCmd.SetOut(writer); rootCmd.SetErr(writer)
ManagerFactory(c) ==
    /\ run[c].state = "factory"
    /\ trees' = [trees EXCEPT ![c] = [NewTree EXCEPT !.out = c]]
    /\ run' = [run EXCEPT ![c].rootCmd = c, ![c].factoryCalls = @ + 1, ![c].state = "load"]
    /\ UNCHANGED <<parse, writer, storeVars, botVars>>

\* execCtx := &ExecutionContext{...}; m.store.Load(convKey)
\* args := parsed.Tokens; ...; rootCmd.SetArgs(args)
ManagerLoad(c) ==
    /\ run[c].state = "load"
    /\ LET args == Args(Deref(run[c].parsed)) IN
         /\ trees' = [trees EXCEPT ![run[c].rootCmd].args = args]
         /\ run' = [run EXCEPT ![c].args = args, ![c].loads = @ + 1, ![c].state = "exec"]
    /\ UNCHANGED <<parse, writer, storeVars, botVars>>

\* rootCmd.ExecuteContext(ctx): the tree parses the arguments it was given
ExecuteParse(c) ==
    /\ run[c].state = "exec"
    /\ trees' = [trees EXCEPT ![run[c].rootCmd].flag = ParseFlags(trees[run[c].rootCmd].args)]
    /\ run' = [run EXCEPT ![c].state = "run"]
    /\ UNCHANGED <<parse, writer, storeVars, botVars>>

\* rootCmd.ExecuteContext(ctx): the command writes its flag to the tree's
\* output and returns, with an error or without
ExecuteRun(c) ==
    /\ run[c].state = "run"
    /\ LET t == trees[run[c].rootCmd]
           seq == Write(t.flag)
       IN /\ CanSend(t.out, seq)
          /\ \E err \in BOOLEAN :
               run' = [Sent(run, t.out, seq) EXCEPT ![c].err = err, ![c].state = "executed"]
    /\ UNCHANGED <<trees, parse, writer, storeVars, botVars>>

\* if err := rootCmd.ExecuteContext(ctx); err != nil { out <- StreamChunk{Content: ...} }
ManagerError(c) ==
    /\ run[c].state = "executed" /\ run[c].err
    /\ CanSend(c, <<ErrorChunk>>)
    /\ run' = [Sent(run, c, <<ErrorChunk>>) EXCEPT ![c].state = "finish"]
    /\ UNCHANGED <<trees, parse, writer, storeVars, botVars>>

\* signalOnce.Do(func() { out <- StreamChunk{Content: "", IsFinal: true} })
ManagerFinal(c) ==
    /\ \/ run[c].state = "finish"
       \/ run[c].state = "executed" /\ ~run[c].err
    /\ LET seq == signalOnce(run[c].once, StreamChunk(<<>>, TRUE, NoPayload)) IN
         /\ CanSend(c, seq)
         /\ run' = [Sent(run, c, seq) EXCEPT ![c].once = TRUE, ![c].state = "closing"]
    /\ UNCHANGED <<trees, parse, writer, storeVars, botVars>>

\* defer close(out)
ManagerClose(c) ==
    /\ run[c].state = "closing"
    /\ run' = [run EXCEPT ![c].state = "closed"]
    /\ UNCHANGED <<trees, parse, writer, storeVars, botVars>>

\* for chunk := range out { ... }: the caller of Trigger receives
ManagerRange(c) ==
    /\ run[c].out # <<>>
    /\ run' = [run EXCEPT ![c].out = Tail(@)]
    /\ UNCHANGED <<trees, parse, writer, storeVars, botVars>>

NextManager ==
    \E c \in TriggerCalls :
      \/ \E text \in ManagerTexts(c) : CallTrigger(c, text)
      \/ ManagerReject(c) \/ ManagerFactory(c) \/ ManagerLoad(c)
      \/ ExecuteParse(c) \/ ExecuteRun(c)
      \/ ManagerError(c) \/ ManagerFinal(c) \/ ManagerClose(c)
      \/ ManagerRange(c)

SpecManager == Init /\ [][NextManager]_vars

\* NewManager(factory, store): a Manager with a factory, or with none.
Factories == {"nil", "set"}

\* No Trigger call has been made on the Manager, whatever its factory.
InitAnyManager ==
    /\ NewBot /\ NoParse /\ NoCrypt /\ NoExec
    /\ NewMemoryStore
    /\ writer = [cap |-> 0, Ch |-> <<>>, written |-> <<>>, received |-> <<>>]
    /\ trees = [c \in TriggerCalls |-> [out |-> 0, args |-> <<>>, flag |-> <<>>]]
    /\ \E factory \in Factories :
         run = [c \in TriggerCalls |-> [NoRun EXCEPT !.factory = factory]]

NextAnyManager ==
    \/ NextManager
    \/ \E c \in TriggerCalls : ManagerUninitialized(c)

SpecAnyManager == InitAnyManager /\ [][NextAnyManager]_vars

\* Trigger has been called with a text that the parser does not classify as
\* a command.
Rejected(c) == run[c].state # "none" /\ ~Parse(NewParser, run[c].text).IsCommand

\* The goroutine of call c has not sent yet.
BeforeSend(c) == run[c].state \in {"reject", "uninitialized"}

\* The help chunk for the text of call c: final, without payload, its content
\* the prompt for a blank text and otherwise the raw text between the two
\* parts of the help message.
HelpChunk(c) ==
    StreamChunk(IF \A k \in 1..Len(run[c].text) : IsSpace(run[c].text[k])
                THEN PromptText
                ELSE UnrecognizedText \o run[c].text \o TryHelpText, TRUE, NoPayload)

\* C21 (as stated): a Trigger call whose text the parser does not classify as
\* a command sends one chunk and no more: it is final and carries the help
\* text, which is not empty; the goroutine then closes the channel; it never
\* calls the factory, never holds a tree and never loads from the store.
C21_NotACommandOneHelpChunk ==
    \A c \in TriggerCalls :
      Rejected(c) =>
        /\ BeforeSend(c) \/ run[c].state \in {"closing", "closed"}
        /\ Len(run[c].sent) = (IF BeforeSend(c) THEN 0 ELSE 1)
        /\ \A i \in 1..Len(run[c].sent) :
             run[c].sent[i] = HelpChunk(c) /\ run[c].sent[i].Content # <<>>
        /\ run[c].factoryCalls = 0 /\ run[c].loads = 0 /\ run[c].rootCmd = 0

\* C21 (amended): on a Manager that has a factory, a Trigger call whose text
\* the parser does not classify as a command sends one chunk and no more, the
\* final help chunk, and closes the channel without calling the factory,
\* holding a tree or loading from the store.  On a Manager without factory a
\* Trigger call sends, whatever its text, one chunk and no more, the final
\* chunk with the text that the Manager is not initialized, and closes the
\* channel; it neither parses the text nor loads from the store.
C21_HelpChunkUnlessUninitialized ==
    \A c \in TriggerCalls :
      /\ (Rejected(c) /\ run[c].factory = "set") =>
           /\ run[c].state \in {"reject", "closing", "closed"}
           /\ Len(run[c].sent) = (IF run[c].state = "reject" THEN 0 ELSE 1)
           /\ \A i \in 1..Len(run[c].sent) :
                run[c].sent[i] = HelpChunk(c) /\ run[c].sent[i].Content # <<>>
           /\ run[c].factoryCalls = 0 /\ run[c].loads = 0 /\ run[c].rootCmd = 0
      /\ (run[c].state # "none" /\ run[c].factory = "nil") =>
           /\ run[c].state \in {"uninitialized", "closing", "closed"}
           /\ Len(run[c].sent) = (IF run[c].state = "uninitialized" THEN 0 ELSE 1)
           /\ \A i \in 1..Len(run[c].sent) : run[c].sent[i] = UninitializedChunk
           /\ run[c].parsed = Nil
           /\ run[c].factoryCalls = 0 /\ run[c].loads = 0 /\ run[c].rootCmd = 0

\* The call with the text " a " has sent "u a h" and closed its channel while
\* the other call executes a command.
C21_Witness ==
    /\ run[1].text = <<" ", "a", " ">> /\ run[1].state = "closed"
    /\ run[1].sent = <<StreamChunk(<<"u", " ", "a", " ", "h">>, TRUE, NoPayload)>>
    /\ run[2].state = "executed"

\* The parser classified the text of call c as a command.
Accepted(c) == run[c].parsed # Nil /\ Deref(run[c].parsed).IsCommand

\* The flag value the text of call c carries: the argument after the root
\* command's name, or the command's name when it is not the root's.
OwnFlag(c) == ParseFlags(Args(Deref(run[c].parsed)))

\* C22: a Trigger call on a command input has called the factory exactly once
\* as soon as it is past that call, and not before; the tree it executes is
\* the one that call returned, which no other Trigger call holds, whose output
\* goes to this call's channel and whose arguments and parsed flag are those
\* of this call's text; and every chunk sent on the call's channel is the
\* call's own flag value as a non-final chunk (first, when there is one), the
\* error chunk or the empty final chunk, so that calls with distinct flag
\* values observe distinct values.
C22_PerRequestIsolation ==
    \A c \in TriggerCalls :
      Accepted(c) =>
        /\ run[c].factoryCalls = (IF run[c].state = "factory" THEN 0 ELSE 1)
        /\ run[c].state # "factory" =>
             /\ run[c].rootCmd \in TriggerCalls
             /\ \A d \in TriggerCalls \ {c} : run[d].rootCmd # run[c].rootCmd
             /\ trees[run[c].rootCmd].out = c
             /\ run[c].state \notin {"load"} =>
                  trees[run[c].rootCmd].args = Args(Deref(run[c].parsed))
             /\ run[c].state \notin {"load", "exec"} =>
                  trees[run[c].rootCmd].flag = OwnFlag(c)
        /\ \A i \in 1..Len(run[c].sent) :
             \/ run[c].sent[i] = StreamChunk(OwnFlag(c), FALSE, NoPayload) /\ i = 1
             \/ run[c].sent[i] = ErrorChunk
             \/ run[c].sent[i] = StreamChunk(<<>>, TRUE, NoPayload)
        /\ (run[c].state \in {"executed", "finish", "closing", "closed"} /\ OwnFlag(c) # <<>>) =>
             /\ run[c].sent # <<>>
             /\ run[c].sent[1] = StreamChunk(OwnFlag(c), FALSE, NoPayload)
             /\ \A d \in TriggerCalls \ {c} :
                  (Accepted(d) /\ OwnFlag(d) # OwnFlag(c)) =>
                    \A i \in 1..Len(run[d].sent) : run[d].sent[i].Content # OwnFlag(c)

\* Two calls, "/e 1" and "/E 2", have run to the end: the first observed the
\* flag value "1", the second "2".
C22_Witness ==
    /\ run[1].text = <<"/", "e", " ", "1">> /\ run[2].text = <<"/", "E", " ", "2">>
    /\ run[1].state = "closed" /\ run[2].state = "closed"
    /\ run[1].sent[1].Content = <<"1">> /\ run[2].sent[1].Content = <<"2">>
    /\ run[1].rootCmd # run[2].rootCmd

\* ---------------------------------------------------------------------
\* StreamWriter (command): a writer on the channel its maker gives it, a
\* command that writes to it and a receiver.
MaxWrites == 4

\* ch := make(chan botcore.StreamChunk, 10)      (TestStreamWriterIncremental)
TestChanCap == 10

\* The channels a writer is made on: Trigger's and the test's.
WriterChanCaps == {ChanCap, TestChanCap}

\* w := NewStreamWriter(ch), on a channel of capacity cap
NewStreamWriter(cap) ==
    /\ writer.cap = 0
    /\ writer' = [writer EXCEPT !.cap = cap]
    /\ UNCHANGED <<parse, run, trees, storeVars, botVars>>

\* w.Write(p): returns when the chunk, if any, is in the channel
StreamWriterWrite(p) ==
    /\ writer.cap > 0
    /\ Len(writer.written) < MaxWrites
    /\ Len(writer.Ch) + Len(Write(p)) <= writer.cap
    /\ writer' = [writer EXCEPT !.Ch = @ \o Write(p), !.written = Append(@, p)]
    /\ UNCHANGED <<parse, run, trees, storeVars, botVars>>

\* chunk := <-ch
StreamWriterReceive ==
    /\ writer.Ch # <<>>
    /\ writer' = [writer EXCEPT !.Ch = Tail(@), !.received = Append(@, Head(writer.Ch))]
    /\ UNCHANGED <<parse, run, trees, storeVars, botVars>>

NextWriter ==
    \/ \E cap \in WriterChanCaps : NewStreamWriter(cap)
    \/ \E p \in Contents : StreamWriterWrite(p)
    \/ StreamWriterReceive

SpecWriter == Init /\ [][NextWriter]_vars

NonEmpty(p) == p # <<>>

\* C23: the chunks received from a StreamWriter's channel, followed by those
\* still in it, are the non-empty byte strings written so far, one chunk for
\* each in write order, each non-final, without payload and with exactly the
\* written bytes as content; an empty Write adds no chunk.
C23_WriteIsOneIncrementalChunk ==
    LET nonEmpty == SelectSeq(writer.written, NonEmpty) IN
      writer.received \o writer.Ch =
        [i \in 1..Len(nonEmpty) |-> StreamChunk(nonEmpty[i], FALSE, NoPayload)]

\* After Write("a"), Write("") and Write("b") the receiver has got the chunks
\* "a" and "b": the second is the increment, not "ab".
C23_Witness ==
    /\ writer.written = << <<"a">>, <<>>, <<"b">> >>
    /\ writer.received = <<StreamChunk(<<"a">>, FALSE, NoPayload),
                           StreamChunk(<<"b">>, FALSE, NoPayload)>>


\* ---------------------------------------------------------------------
\* The callback handler: ServeHTTP, handleGet and handlePost as a whole.
\* ---------------------------------------------------------------------

\* Bot.Adapter is nil, the default MessageAdapter, or an adapter whose
\* Normalize returns an error; Bot.Pipeline is nil or set; Crypto and
\* Sessions are those of NewBot.
BotConfigs ==
    [Adapter : {"nil", "MessageAdapter", "failing"}, Pipeline : {"nil", "set"},
     Crypto : {"set"}, Sessions : {"set"}]

\* A Bot built as a struct literal: any of its fields may be nil.
AnyBotConfigs ==
    [Adapter : {"nil", "MessageAdapter", "failing"}, Pipeline : {"nil", "set"},
     Crypto : {"nil", "set"}, Sessions : {"nil", "set"}]

\* A GET callback: which query parameters are there, and whether
\* Crypto.VerifyURL accepts them.
GetRequest == [sig |-> TRUE, ts |-> TRUE, nonce |-> TRUE, echostr |-> TRUE, verify |-> TRUE]

GetRequests ==
    {GetRequest, [GetRequest EXCEPT !.verify = FALSE]}
    \cup {[GetRequest EXCEPT ![k] = FALSE] : k \in {"sig", "ts", "nonce", "echostr"}}

\* A POST callback: which query parameters are there, what the body is,
\* whether Crypto.DecryptMessage accepts it, and the msgtype of the message.
PostRequest(msgType) ==
    [sig |-> TRUE, ts |-> TRUE, nonce |-> TRUE, body |-> "encrypted", decrypt |-> TRUE,
     msgType |-> msgType]

MsgTypes == {"text", "event", "stream"}

PostRequests ==
    {PostRequest(t) : t \in MsgTypes}
    \cup {[PostRequest("text") EXCEPT ![k] = FALSE] : k \in {"sig", "ts", "nonce", "decrypt"}}
    \cup {[PostRequest("text") EXCEPT !.body = b] : b \in {"undecodable", "noencrypt"}}

\* if sig == "" || ... { 400 }; plain, err := b.Crypto.VerifyURL(...); if err != nil { 400 }
handleGetMutant(req) ==
    IF bot.Crypto = "nil" THEN HttpError("server misconfigured", 500)
    ELSE IF ~(req.sig /\ req.ts /\ req.nonce /\ req.echostr)
    THEN HttpError("missing parameters", 400)
    ELSE IF ~req.verify THEN HttpError("forbidden", 400)
    ELSE [status |-> 200, body |-> <<[plain |-> "echostr"]>>]

\* if b == nil || b.Crypto == nil { 500 }
\* if sig == "" || ... { 400 }; plain, err := b.Crypto.VerifyURL(...); if err != nil { 403 }
\* w.Write([]byte(plain))
handleGet(req) ==
    IF bot.Crypto = "nil" THEN HttpError("server misconfigured", 500)
    ELSE IF ~(req.sig /\ req.ts /\ req.nonce /\ req.echostr)
    THEN HttpError("missing parameters", 400)
    ELSE IF ~req.verify THEN HttpError("forbidden", 403)
    ELSE [status |-> 200, body |-> <<[plain |-> "echostr"]>>]

\* case http.MethodGet: b.handleGet(w, r)
HandleGet(p, req) ==
    /\ Begin(p)
    /\ Land(p, [Frame0 EXCEPT !.op = "handleGet", !.req = Ptr(req),
                              !.resp = Ptr(handleGet(req))], "done")
    /\ UNCHANGED <<cfgVars, cmdVars, tallyVars, pipeVars, mgrVars, now, fallback, appended, calls, histVars>>

\* case http.MethodPost: b.handlePost(w, r), a request that fails a check of
\* its own: the Bot is checked first, and b.Cleanup() runs before the checks
\* of the request
HandlePostRejected(p, req) ==
    /\ PostRejection(req) # ""
    /\ Begin(p)
    /\ IF Misconfigured THEN PostMisconfigured(p, [Frame0 EXCEPT !.req = Ptr(req)])
       ELSE Land(p, [Frame0 EXCEPT !.op = "handlePost", !.req = Ptr(req), !.cnow = now],
                 "postCleanup")
    /\ UNCHANGED <<cfgVars, cmdVars, tallyVars, pipeVars, mgrVars, now, fallback, appended, calls, histVars>>

\* case http.MethodPost: b.handlePost(w, r), a request that passes the checks
HandlePostAccepted(p, req, streamID, msgID) ==
    /\ PostRejection(req) = ""
    /\ HandlePostFrom(p, [Frame0 EXCEPT !.req = Ptr(req)], req.msgType, streamID, msgID)

\* What the Pipeline of the handler's Bot does with a message: it closes its
\* channel at once, rejects the text, asks for no response, writes one chunk,
\* or fails.
HandlerPipelines ==
    {ClosedPipeline, NilPipeline,
     [kind |-> "unrecognized", events |-> <<>>, err |-> FALSE, next |-> 1, go |-> <<>>],
     [kind |-> "command", events |-> <<"SetNoResponse">>, err |-> FALSE, next |-> 1, go |-> <<>>],
     [kind |-> "command", events |-> <<"a">>, err |-> FALSE, next |-> 1, go |-> <<>>],
     [kind |-> "command", events |-> <<>>, err |-> TRUE, next |-> 1, go |-> <<>>]}

HandlerInitial(p) ==
    \/ InitialSetUpdate(p) \/ SetUpdate(p)
    \/ InitialTriggerOf(p, HandlerPipelines) \/ InitialReceive(p) \/ InitialClosed(p)
    \/ InitialTimeout(p) \/ InitialGot(p) \/ InitialAfterAccumulate(p)
    \/ InitialNoResponse(p) \/ InitialSpawn(p) \/ InitialReply(p)

\* A Bot of any configuration, before its first request.
InitHandler == NewSessions /\ NoParse /\ NoTrigger /\ NoCrypt /\ NoExec /\ bot \in BotConfigs

\* The platform sends GET and POST callbacks, one at a time.
NextHandler ==
    \/ \E req \in GetRequests : HandleGet(Handler, req)
    \/ \E req \in PostRequests : HandlePostRejected(Handler, req)
    \/ \E req \in PostRequests : HandlePostAccepted(Handler, req, 0, "m1")
    \/ \E req \in PostRequests, s \in sessions : HandlePostAccepted(Handler, req, s, "m1")
    \/ PostCleanup(Handler)
    \/ PostDispatch(Handler)
    \/ CreateOrGet(Handler)
    \/ HandlerInitial(Handler)
    \/ Accumulate(Handler)
    \/ Consume(Handler)
    \/ Refresh(Handler)
    \/ BotMarkFinishedGet(Handler)
    \/ MarkFinished(Handler)
    \/ consumePipeline(Detached)
    \/ TriggerRun

SpecHandler == InitHandler /\ [][NextHandler]_vars

\* A Bot with any of its fields nil, before its first request.
InitAnyHandler ==
    NewSessions /\ NoParse /\ NoTrigger /\ NoCrypt /\ NoExec /\ bot \in AnyBotConfigs

SpecAnyHandler == InitAnyHandler /\ [][NextHandler]_vars

\* The HTTP response to the request the handler has finished.
HandlerResponse == handlePostResponse(fr[Handler])

\* The handler has finished a request of the given method.
Answered(ops) ==
    /\ pc[Handler] = "done"
    /\ fr[Handler].req # Nil
    /\ fr[Handler].op \in ops

\* The response carries what Crypto.EncryptResponse made.
HasEncryptedReply(r) == \E i \in 1..Len(r.body) : "encrypt" \in DOMAIN r.body[i]

\* The mapping of C24 for the request the handler has finished: a GET lacking
\* a query parameter is answered 400 and one that VerifyURL refuses 403; a
\* POST lacking a query parameter, with an undecodable body or refused by
\* DecryptMessage is answered 400; a POST of msgtype "stream" is handled by
\* Refresh and any other by Initial; an error of Initial or Refresh other than
\* ErrNoResponse is answered 500.
StatusMapping ==
    LET f == fr[Handler]
        req == Deref(f.req)
        r == HandlerResponse IN
      /\ Answered({"handleGet"}) =>
           /\ ~(req.sig /\ req.ts /\ req.nonce /\ req.echostr) => r.status = 400
           /\ (req.sig /\ req.ts /\ req.nonce /\ req.echostr /\ ~req.verify) => r.status = 403
      /\ Answered({"handlePost", "Initial", "Refresh"}) =>
           /\ (~(req.sig /\ req.ts /\ req.nonce) \/ req.body = "undecodable" \/ ~req.decrypt)
                => r.status = 400 /\ f.op = "handlePost"
           /\ f.op = "Refresh" => req.msgType = "stream"
           /\ f.op = "Initial" => req.msgType # "stream"
           /\ (f.op # "handlePost" /\ f.err \notin {"nil", "ErrNoResponse"}) => r.status = 500

\* An encrypted reply is written only with status 200 after Initial or Refresh
\* returned without error.
EncryptedOnlyOnSuccess ==
    Answered({"handleGet", "handlePost", "Initial", "Refresh"}) =>
      (HasEncryptedReply(HandlerResponse) =>
         /\ HandlerResponse.status = 200
         /\ fr[Handler].op \in {"Initial", "Refresh"} /\ fr[Handler].err = "nil")

\* C24 (as stated): the handler maps every request as StatusMapping says,
\* whatever the Bot, and writes an encrypted reply only on success.
C24_StatusMapping == StatusMapping /\ EncryptedOnlyOnSuccess

\* C24 (amended): a Bot without Crypto answers every GET, and a Bot without
\* Crypto or without Sessions every POST, with 500 and the plain text "server
\* misconfigured", whatever the request, and hands the POST to neither Initial
\* nor Refresh.  Any other Bot maps the request as StatusMapping says.  An
\* encrypted reply is written only with status 200 after Initial or Refresh
\* returned without error.
C24_StatusMappingUnlessMisconfigured ==
    LET ServerMisconfigured == HttpError("server misconfigured", 500) IN
      /\ Answered({"handleGet"}) =>
           IF bot.Crypto = "nil" THEN HandlerResponse = ServerMisconfigured
           ELSE StatusMapping
      /\ Answered({"handlePost", "Initial", "Refresh"}) =>
           IF Misconfigured
           THEN HandlerResponse = ServerMisconfigured /\ fr[Handler].op = "handlePost"
           ELSE StatusMapping
      /\ EncryptedOnlyOnSuccess

\* A GET with every parameter that VerifyURL refused has been answered 403.
C24_Witness ==
    /\ Answered({"handleGet"})
    /\ ~Deref(fr[Handler].req).verify
    /\ HandlerResponse.status = 403
    /\ ~HasEncryptedReply(HandlerResponse)

\* An initial (non-stream) POST has been answered.
InitialAnswered == Answered({"Initial"}) /\ Deref(fr[Handler].req).msgType # "stream"

\* The reply of an Initial that triggered no pipeline: the stream's first,
\* empty, unfinished chunk.
EmptyReply(r) ==
    /\ Len(r.body) = 1
    /\ HasEncryptedReply(r)
    /\ LET m == r.body[1].encrypt[2] IN
         /\ "stream" \in DOMAIN m
         /\ m.stream.content = <<>>
         /\ ~m.stream.finish
         /\ m.stream.id # 0

\* An initial POST handled by a Bot without pipeline or without adapter is
\* answered 500 without an encrypted reply.
C25_NoPipelineOrNoAdapterIs500 ==
    (InitialAnswered /\ (bot.Pipeline = "nil" \/ bot.Adapter = "nil")) =>
        HandlerResponse.status = 500 /\ ~HasEncryptedReply(HandlerResponse)

\* C25: an initial POST handled by a Bot without adapter is answered 500
\* without an encrypted reply; handled by a Bot with the default adapter
\* but without pipeline it is answered 200 with the encrypted empty,
\* unfinished stream reply of its session.
C25_NoAdapterIs500NoPipelineIsEmptyReply ==
    InitialAnswered =>
      /\ bot.Adapter = "nil" =>
           HandlerResponse.status = 500 /\ ~HasEncryptedReply(HandlerResponse)
      /\ (bot.Adapter = "MessageAdapter" /\ bot.Pipeline = "nil") =>
           HandlerResponse.status = 200 /\ EmptyReply(HandlerResponse)

\* Both cases have happened on one Bot or another: here the one without
\* pipeline has answered its first message.
C25_Witness ==
    /\ InitialAnswered
    /\ bot = [ConfiguredBot EXCEPT !.Pipeline = "nil"]
    /\ fr[Handler].isNew
    /\ HandlerResponse.status = 200
    /\ EmptyReply(HandlerResponse)


\* ---------------------------------------------------------------------
\* The fallback cache under every kind of push.
\* ---------------------------------------------------------------------

\* Bot.PushStreamChunk
PushStreamChunk(p, msgID, content, isFinal, limit) ==
    CallPush(p, 0, msgID, StreamChunk(content, isFinal, NoPayload), limit)

\* A Bot after Initial created the session of one turn, called by one
\* process: pushStreamChunk for the session's stream id and for one that no
\* session has, with any msg id, PushStreamChunk for any msg id, the empty
\* one too, and Refresh callbacks.
FallbackCalls(p) ==
    \/ /\ Quiet
       /\ \E s \in 1..nextID, m \in FallbackKeys, c \in TextChunks :
            ~Skipped(c) /\ CallPush(p, s, m, c, MaxAppends)
    \/ /\ Quiet
       /\ \E m \in FallbackKeys, c \in Contents, f \in BOOLEAN :
            PushStreamChunk(p, m, c, f, MaxAppends)
    \/ /\ Quiet
       /\ \E s \in 0..nextID, m \in FallbackKeys : CallRefresh(p, s, m)

FallbackStep(p) ==
    \/ Publish(p) \/ Consume(p) \/ MarkFinished(p)
    \/ Push(p) \/ Refresh(p)

NextFallback == FallbackCalls(Caller) \/ FallbackStep(Caller)

SpecFallback == InitSession /\ [][NextFallback]_vars

\* pushStreamChunk is about to hand its chunk to cacheFallback.
Unroutable(p) ==
    \/ pc[p] = "pushCache"
    \/ pc[p] = "pushAfterPublish" /\ ~fr[p].ok

\* C30: after every step every entry of the fallback cache has a non-empty
\* msg id as its key and holds a final chunk, and the step in which
\* pushStreamChunk gives up on a non-final chunk leaves the cache as it was.
C30_OnlyFinalChunksCached ==
    [][/\ \A m \in FallbackKeys :
            fallback'[m] # Nil => m # "" /\ Deref(fallback'[m]).IsFinal
       /\ \A p \in Threads :
            (Unroutable(p) /\ ~fr[p].chunk.IsFinal /\ pc'[p] # pc[p]) => fallback' = fallback]_vars

\* The cache holds the final chunk of "m1", and a push with the empty msg id
\* that found no session has returned false.
C30_Witness ==
    /\ fallback["m1"] # Nil
    /\ pc[Caller] = "done"
    /\ fr[Caller].op = "Push"
    /\ fr[Caller].msg = ""
    /\ ~fr[Caller].ok


\* ---------------------------------------------------------------------
\* MemoryStore: Load, Save and the maps they share or do not share.
\* ---------------------------------------------------------------------
MaxStoreCalls == 3

\* ContextValues (map[string]string) over two names: the value of each name,
\* Absent when the map has no such name.
Names == {"x", "y"}
Absent == "absent"
StoreValues == {"a", "b"}
Mutated == "m"
ContextValues == [Names -> StoreValues \cup {Absent}]
EmptyValues == [n \in Names |-> Absent]

\* The maps a caller makes: an empty one, one name, another name, both names.
CallerMaps ==
    {EmptyValues,
     [EmptyValues EXCEPT !["x"] = "a"],
     [EmptyValues EXCEPT !["y"] = "a"],
     [n \in Names |-> "b"]}

\* len(values)
len(values) == Cardinality({n \in Names : values[n] # Absent})

\* The entries of the map with the given id in heap h; a nil map has none.
ValuesIn(h, id) == IF id = 0 THEN EmptyValues ELSE h[id]

\* cloneValues: nil for a map without entries, else a new map with the same
\* entries
cloneValues(h, src) ==
    IF len(ValuesIn(h, src)) = 0 THEN [heap |-> h, id |-> 0]
    ELSE [heap |-> Append(h, h[src]), id |-> Len(h) + 1]

\* for k, v := range values { merged[k] = v }, forgetting what merged held
mergeMutant(merged, values) == values

\* for k, v := range values { merged[k] = v }
merge(merged, values) ==
    [n \in Names |-> IF values[n] # Absent THEN values[n] ELSE merged[n]]

\* The record of a call: the call's number, what it was and what it returned.
Called(op, key, id) == [op |-> op, key |-> key, id |-> id, n |-> last.n + 1]

\* MemoryStore.Load returning the stored map itself
StoreLoadMutant(key) ==
    /\ last.n < MaxStoreCalls
    /\ LET id == IF key = "" THEN 0 ELSE data[key] IN
         /\ held' = held \cup ({id} \ {0})
         /\ last' = Called("Load", key, id)
    /\ UNCHANGED <<heap, data, saves, parse, run, trees, writer, botVars>>

\* MemoryStore.Load
StoreLoad(key) ==
    /\ last.n < MaxStoreCalls
    /\ LET c == IF key = "" \/ data[key] = 0 THEN [heap |-> heap, id |-> 0]
                ELSE cloneValues(heap, data[key]) IN
         /\ heap' = c.heap
         /\ held' = held \cup ({c.id} \ {0})
         /\ last' = Called("Load", key, c.id)
    /\ UNCHANGED <<data, saves, parse, run, trees, writer, botVars>>

\* MemoryStore.Save(key, values), h being the heap when it is called
StoreSave(h, key, values) ==
    /\ last.n < MaxStoreCalls
    /\ saves' = Append(saves, [key |-> key, values |-> ValuesIn(h, values)])
    /\ last' = Called("Save", key, values)
    /\ IF key = "" \/ len(ValuesIn(h, values)) = 0
       THEN heap' = h /\ data' = data
       ELSE LET c == cloneValues(h, data[key])
                m == IF c.id = 0 THEN [heap |-> Append(h, EmptyValues), id |-> Len(h) + 1]
                     ELSE c
            IN /\ heap' = [m.heap EXCEPT ![m.id] = merge(@, ValuesIn(h, values))]
               /\ data' = [data EXCEPT ![key] = m.id]

\* A caller makes a map, ContextValues{...}, and saves it
SaveNew(key, values) ==
    /\ StoreSave(Append(heap, values), key, Len(heap) + 1)
    /\ held' = held \cup {Len(heap) + 1}
    /\ UNCHANGED <<parse, run, trees, writer, botVars>>

\* A caller saves a map it holds, or nil
SaveHeld(key, id) ==
    /\ id \in held \cup {0}
    /\ StoreSave(heap, key, id)
    /\ UNCHANGED <<held, parse, run, trees, writer, botVars>>

\* A caller changes the map it got from the latest Load or gave to the
\* latest Save: values[name] = "m"
Mutate(name) ==
    /\ last.id # 0
    /\ heap[last.id][name] # Mutated
    /\ heap' = [heap EXCEPT ![last.id][name] = Mutated]
    /\ UNCHANGED <<data, held, saves, last, parse, run, trees, writer, botVars>>

NextStore ==
    \/ \E key \in StoreKeys : StoreLoad(key)
    \/ \E key \in StoreKeys, values \in CallerMaps : SaveNew(key, values)
    \/ \E key \in StoreKeys, id \in held \cup {0} : SaveHeld(key, id)
    \/ \E name \in Names : Mutate(name)

SpecStore == Init /\ [][NextStore]_vars

\* What a sequence of Saves leaves for a key: for every name the value of the
\* latest Save on the key that contained the name.
RECURSIVE LatestSaved(_, _)
LatestSaved(key, saved) ==
    IF saved = <<>> THEN EmptyValues
    ELSE LET before == LatestSaved(key, SubSeq(saved, 1, Len(saved) - 1))
             save == saved[Len(saved)]
         IN IF save.key # key THEN before
            ELSE [n \in Names |-> IF save.values[n] # Absent THEN save.values[n] ELSE before[n]]

\* The step is a call of the given operation.
StoreCall(op) == last'.n # last.n /\ last'.op = op

\* C28: what Load(key) returns holds, for every name, the value of the
\* latest Save on the key that contained the name (nothing for the empty
\* key), so that names absent from a Save keep their value and no Save
\* removes a name; what is stored for a key is that as well after every
\* step; and a Save with the empty key or without values leaves every
\* stored map as it was.
C28_SaveMergesNewerWins ==
    [][/\ \A key \in StoreKeys \ {""} :
            ValuesIn(heap', data'[key]) = LatestSaved(key, saves')
       /\ StoreCall("Load") =>
            ValuesIn(heap', last'.id) =
              IF last'.key = "" THEN EmptyValues ELSE LatestSaved(last'.key, saves)
       /\ (StoreCall("Save") /\ (last'.key = "" \/ len(saves'[Len(saves')].values) = 0)) =>
            /\ data' = data
            /\ \A key \in StoreKeys : ValuesIn(heap', data'[key]) = ValuesIn(heap, data[key])]_vars

\* Two Saves on "k" were made, the later one changing x and not containing
\* y, and a Load has returned x of the later and y of the earlier.
C28_Witness ==
    /\ last.op = "Load" /\ last.key = "k" /\ last.id # 0
    /\ Len(saves) = 2
    /\ saves[1].key = "k" /\ saves[2].key = "k"
    /\ saves[1].values = [n \in Names |-> "b"]
    /\ saves[2].values = [EmptyValues EXCEPT !["x"] = "a"]
    /\ heap[last.id] = [x |-> "a", y |-> "b"]

\* C29: a caller changing a map it got from Load or gave to Save changes no
\* stored values and no other map a caller holds; Load returns a map that
\* no caller holds yet and that the store does not keep; and a Save changes
\* no map a caller holds and keeps none of them.
C29_NoMapShared ==
    [][/\ (last' = last /\ heap' # heap) =>
            /\ \A key \in StoreKeys : ValuesIn(heap', data'[key]) = ValuesIn(heap, data[key])
            /\ \A id \in held \ {last.id} : heap'[id] = heap[id]
       /\ StoreCall("Load") =>
            \/ last'.id = 0
            \/ /\ last'.id \notin held
               /\ \A key \in StoreKeys : data'[key] # last'.id
       /\ StoreCall("Save") =>
            /\ \A id \in held : heap'[id] = heap[id]
            /\ \A key \in StoreKeys : data'[key] \notin held']_vars

\* A caller has changed the map Load returned for "k", and another the map
\* it had saved, while the store still holds what was saved.
C29_Witness ==
    /\ last.op = "Load" /\ last.key = "k" /\ last.id # 0
    /\ heap[last.id]["x"] = Mutated
    /\ \E id \in held \ {last.id} : heap[id]["x"] = Mutated
    /\ data["k"] # 0
    /\ heap[data["k"]]["x"] = "a"


\* ---------------------------------------------------------------------
\* The fallback cache read by concurrent Refresh callbacks.
\* ---------------------------------------------------------------------

\* A Bot without sessions.  Two processes call SetFinalMessage for "m1",
\* which finds no session and caches the chunk, and Refresh for "m1" with a
\* stream id no session has, concurrently.
CacheCalls(p) ==
    \/ \E c \in Contents : SetFinalMessage(p, "m1", c, MaxAppends)
    \/ CallRefresh(p, 1, "m1")

CacheStep(p) == PushCache(p) \/ Refresh(p) \/ BotMarkFinishedGet(p)

NextCache == \E p \in Threads : CacheCalls(p) \/ CacheStep(p)

SpecCache == Init /\ [][NextCache]_vars

\* The entries the cache holds for a msg id: none or one.
Cached0(m) == IF fallback[m] # Nil THEN 1 ELSE 0

\* C31: for every msg id, the Refresh calls that returned a cached chunk and
\* the entry the cache still holds are together no more than the chunks that
\* were cached: no entry is returned twice, and a returned entry is gone
\* until the next final chunk is cached.
C31_EntryReturnedAtMostOnce ==
    \A m \in MsgIDs : tally.returned[m] + Cached0(m) <= tally.stored[m]

\* Both processes have finished a Refresh for "m1" after one chunk was
\* cached: one returned it, the other replied the empty chunk, and the cache
\* is empty.
C31_Witness ==
    /\ tally.stored["m1"] = 1 /\ tally.returned["m1"] = 1
    /\ fallback["m1"] = Nil
    /\ \A p \in Threads : pc[p] = "done" /\ fr[p].op = "Refresh"
    /\ \E p \in Threads : fr[p].ret # Nil /\ Deref(fr[p].reply).finish
    /\ \E p \in Threads : fr[p].ret = Nil /\ ~Deref(fr[p].reply).finish

\* A pushStreamChunk call made through PushStreamChunk or SetFinalMessage
\* has returned.
Pushed(p) == pc[p] = "done" /\ fr[p].op = "Push"

\* C32: pushStreamChunk returns true exactly when the chunk was published
\* into a session's queue or stored in the fallback cache, and false only
\* when it was dropped.
C32_TrueIffDelivered ==
    \A p \in Threads : Pushed(p) => (fr[p].ok <=> fr[p].delivered # "dropped")

\* The returns that are as the claim says: true after a Publish that took the
\* chunk, false after a chunk was dropped.
C32_TrueIffPublished ==
    \A p \in Threads : Pushed(p) => (fr[p].ok <=> fr[p].delivered = "published")


\* ---------------------------------------------------------------------
\* The cryptographic envelope: Crypt.EncryptResponse, DecryptMessage and
\* VerifyURL, over strings of small bytes.
\* ---------------------------------------------------------------------

\* A byte is one of 0..ByteMod-1; a string is a sequence of bytes.
ByteMod == 7
Bytes == 0..(ByteMod - 1)

\* NewCrypt(token, encodingAESKey, corpID)
Crypt == [token |-> <<3>>, key |-> 2, iv |-> 2, corpID |-> <<4, 1>>]

\* The AES block size, and the length of the random prefix of a frame.
BlockSize == 2
RandomLen == 1

\* a < b, lexicographically
Less(a, b) ==
    \/ \E i \in 1..Len(a) :
         /\ i <= Len(b)
         /\ SubSeq(a, 1, i - 1) = SubSeq(b, 1, i - 1)
         /\ a[i] < b[i]
    \/ Len(a) < Len(b) /\ SubSeq(b, 1, Len(a)) = a

\* sort.Strings(list)
SortStrings(list) ==
    LET n == Len(list)
        perm == CHOOSE f \in [1..n -> 1..n] :
                  /\ \A i, j \in 1..n : i # j => f[i] # f[j]
                  /\ \A i \in 1..(n - 1) : ~Less(list[f[i + 1]], list[f[i]])
    IN [i \in 1..n |-> list[perm[i]]]

\* calcSignature: hex(SHA1(sort(token, timestamp, nonce, ciphertext).join(""))),
\* SHA-1 taken as injective
calcSignature(token, timestamp, nonce, ciphertext) ==
    [sha1 |-> Flatten(SortStrings(<<token, timestamp, nonce, ciphertext>>))]

\* PKCS#7: n bytes of value n, 1 <= n <= BlockSize, up to a block boundary
pkcs7Pad(bytes) ==
    LET n == BlockSize - (Len(bytes) % BlockSize) IN bytes \o [i \in 1..n |-> n]

\* PKCS#7 unpadding: Nil for a padding that is none
pkcs7Unpad(bytes) ==
    IF bytes = <<>> THEN Nil
    ELSE LET n == bytes[Len(bytes)] IN
           IF n < 1 \/ n > BlockSize \/ n > Len(bytes) THEN Nil
           ELSE Ptr(SubSeq(bytes, 1, Len(bytes) - n))

\* AES-CBC, as a byte-wise cipher chained from the IV
RECURSIVE cbcEncrypt(_, _, _)
cbcEncrypt(key, prev, plain) ==
    IF plain = <<>> THEN <<>>
    ELSE LET c == (Head(plain) + key + prev) % ByteMod IN
           <<c>> \o cbcEncrypt(key, c, Tail(plain))

RECURSIVE cbcDecrypt(_, _, _)
cbcDecrypt(key, prev, cipher) ==
    IF cipher = <<>> THEN <<>>
    ELSE <<(Head(cipher) + 2 * ByteMod - key - prev) % ByteMod>>
         \o cbcDecrypt(key, Head(cipher), Tail(cipher))

\* base64: every byte becomes a character of another alphabet
Base64Offset == 10
base64Encode(bytes) == [i \in 1..Len(bytes) |-> bytes[i] + Base64Offset]
base64Decode(text) ==
    IF \E i \in 1..Len(text) : text[i] - Base64Offset \notin Bytes THEN Nil
    ELSE Ptr([i \in 1..Len(text) |-> text[i] - Base64Offset])

\* The frame: random prefix, payload length, payload, corp id
Frame(random, payload, corpID) == random \o <<Len(payload)>> \o payload \o corpID

\* Crypt.encrypt(payload)
encrypt(c, random, payload) ==
    base64Encode(cbcEncrypt(c.key, c.iv, pkcs7Pad(Frame(random, payload, c.corpID))))

\* The payload of a frame, taking everything after the length as payload
ParseFrameMutant(c, frame) ==
    IF Len(frame) < RandomLen + 1 THEN Nil
    ELSE Ptr(SubSeq(frame, RandomLen + 2, Len(frame)))

\* The payload of a frame: Nil when the length or the corp id is wrong
ParseFrame(c, frame) ==
    IF Len(frame) < RandomLen + 1 THEN Nil
    ELSE LET n == frame[RandomLen + 1]
             rest == SubSeq(frame, RandomLen + 2, Len(frame))
         IN IF n > Len(rest) THEN Nil
            ELSE IF SubSeq(rest, n + 1, Len(rest)) # c.corpID THEN Nil
            ELSE Ptr(SubSeq(rest, 1, n))

\* Crypt.decrypt(ciphertext): the payload, or Nil for an error
decrypt(c, ciphertext) ==
    LET raw == base64Decode(ciphertext) IN
      IF raw = Nil \/ Len(Deref(raw)) % BlockSize # 0 THEN Nil
      ELSE LET plain == pkcs7Unpad(cbcDecrypt(c.key, c.iv, Deref(raw))) IN
             IF plain = Nil THEN Nil ELSE ParseFrame(c, Deref(plain))

\* json.Marshal of a reply object: a stream reply is its tag, id, finish and
\* content, any other object its tag
JsonStream == 1
JsonObject == 2
JsonChar(ch) == IF ch = "a" THEN 1 ELSE 2
JsonMarshal(reply) ==
    IF reply.payload = NoPayload
    THEN <<JsonStream, reply.id, IF reply.finish THEN 1 ELSE 0>>
         \o [i \in 1..Len(reply.content) |-> JsonChar(reply.content[i])]
    ELSE IF reply.payload = NoResponse THEN <<>>
    ELSE <<JsonObject>>

\* json.Unmarshal into Message: the msgtype and the stream id (0: no stream)
JsonUnmarshal(bytes) ==
    IF bytes = <<>> THEN Ptr([MsgType |-> "", StreamID |-> 0])
    ELSE IF bytes[1] = JsonStream
    THEN IF Len(bytes) < 3 THEN Nil ELSE Ptr([MsgType |-> "stream", StreamID |-> bytes[2]])
    ELSE IF bytes[1] = JsonObject THEN Ptr([MsgType |-> "object", StreamID |-> 0])
    ELSE Nil

\* Crypt.EncryptResponse(reply, timestamp, nonce)
CryptEncryptResponse(c, random, reply, timestamp, nonce) ==
    LET ciphertext == encrypt(c, random, JsonMarshal(reply)) IN
      [Encrypt |-> ciphertext, Timestamp |-> timestamp, Nonce |-> nonce,
       MsgSignature |-> calcSignature(c.token, timestamp, nonce, ciphertext)]

\* Crypt.DecryptMessage(signature, timestamp, nonce, req): the Message, or
\* Nil for an error
CryptDecryptMessage(c, signature, timestamp, nonce, req) ==
    IF calcSignature(c.token, timestamp, nonce, req.Encrypt) # signature THEN Nil
    ELSE LET plain == decrypt(c, req.Encrypt) IN
           IF plain = Nil THEN Nil ELSE JsonUnmarshal(Deref(plain))

\* Crypt.VerifyURL(signature, timestamp, nonce, echostr): the plaintext, or
\* Nil for an error
CryptVerifyURL(c, signature, timestamp, nonce, echostr) ==
    IF calcSignature(c.token, timestamp, nonce, echostr) # signature THEN Nil
    ELSE decrypt(c, echostr)

\* The inputs: reply objects, timestamps, nonces, random prefixes, and the
\* plaintexts of an echostr.
CryptReplies ==
    {BuildStreamReply(id, content, finish) : id \in 1..2, content \in Contents, finish \in BOOLEAN}
    \cup {[NoReply EXCEPT !.payload = x] : x \in {Card, NoResponse}}
CryptStrings == {<<1>>, <<3>>, <<1, 3>>}
CryptRandoms == {<<b>> : b \in {0, 3, 6}}
CryptPlaintexts == {<<>>, <<5>>, <<4, 1>>, <<2, 6, 4>>}

\* A Crypt and what it is going to be given.
InitCrypt ==
    /\ NewBot /\ NoParse /\ NoTrigger /\ NoExec
    /\ crypt \in
         [op : {"EncryptResponse"}, reply : CryptReplies, plain : {<<>>},
          ts : CryptStrings, nonce : CryptStrings, random : CryptRandoms,
          out : {Nil}, back : {Nil}]
         \cup
         [op : {"VerifyURL"}, reply : {NoReply}, plain : CryptPlaintexts,
          ts : CryptStrings, nonce : CryptStrings, random : CryptRandoms,
          out : {Nil}, back : {Nil}]

\* resp, err := crypt.EncryptResponse(payload, ts, nonce)
CallEncryptResponse ==
    /\ crypt.op = "EncryptResponse" /\ crypt.out = Nil
    /\ crypt' = [crypt EXCEPT !.out = Ptr(CryptEncryptResponse(Crypt, crypt.random, crypt.reply,
                                                                 crypt.ts, crypt.nonce))]
    /\ UNCHANGED <<bot, exec, tally, cmdVars, pipeVars, otherVars>>

\* msg, err := crypt.DecryptMessage(resp.MsgSignature, resp.Timestamp, resp.Nonce,
\*                                  EncryptedRequest{Encrypt: resp.Encrypt})
CallDecryptMessage ==
    /\ crypt.op = "EncryptResponse" /\ crypt.out # Nil /\ crypt.back = Nil
    /\ LET resp == Deref(crypt.out) IN
         crypt' = [crypt EXCEPT !.back =
                     Ptr(CryptDecryptMessage(Crypt, resp.MsgSignature, resp.Timestamp, resp.Nonce,
                                             [Encrypt |-> resp.Encrypt]))]
    /\ UNCHANGED <<bot, exec, tally, cmdVars, pipeVars, otherVars>>

\* echoStr, err := crypt.encrypt(payload); signature := calcSignature(token, ts, nonce, echoStr)
CallEncrypt ==
    /\ crypt.op = "VerifyURL" /\ crypt.out = Nil
    /\ LET echostr == encrypt(Crypt, crypt.random, crypt.plain) IN
         crypt' = [crypt EXCEPT !.out =
                     Ptr([Encrypt |-> echostr, Timestamp |-> crypt.ts, Nonce |-> crypt.nonce,
                          MsgSignature |-> calcSignature(Crypt.token, crypt.ts, crypt.nonce, echostr)])]
    /\ UNCHANGED <<bot, exec, tally, cmdVars, pipeVars, otherVars>>

\* plain, err := crypt.VerifyURL(signature, timestamp, nonce, echoStr)
CallVerifyURL ==
    /\ crypt.op = "VerifyURL" /\ crypt.out # Nil /\ crypt.back = Nil
    /\ LET resp == Deref(crypt.out) IN
         crypt' = [crypt EXCEPT !.back =
                     Ptr(CryptVerifyURL(Crypt, resp.MsgSignature, resp.Timestamp, resp.Nonce,
                                        resp.Encrypt))]
    /\ UNCHANGED <<bot, exec, tally, cmdVars, pipeVars, otherVars>>

NextCrypt == CallEncryptResponse \/ CallDecryptMessage \/ CallEncrypt \/ CallVerifyURL

SpecCrypt == InitCrypt /\ [][NextCrypt]_vars

\* The msgtype and the stream id of a reply object.
ReplyKind(reply) ==
    IF reply.payload = NoPayload THEN [MsgType |-> "stream", StreamID |-> reply.id]
    ELSE IF reply.payload = NoResponse THEN [MsgType |-> "", StreamID |-> 0]
    ELSE [MsgType |-> "object", StreamID |-> 0]

\* C33: DecryptMessage applied to what EncryptResponse returned succeeds and
\* yields a message with the msgtype and the stream id of the reply object;
\* VerifyURL applied to encrypt(x) and the signature computed over the token,
\* timestamp, nonce and that ciphertext succeeds and returns x.
C33_EncryptDecryptRoundTrip ==
    (crypt # Nil /\ crypt.back # Nil) =>
       /\ Deref(crypt.back) # Nil
       /\ crypt.op = "EncryptResponse" => Deref(Deref(crypt.back)) = ReplyKind(crypt.reply)
       /\ crypt.op = "VerifyURL" => Deref(Deref(crypt.back)) = crypt.plain

\* A finished stream reply with content went through EncryptResponse and
\* DecryptMessage, under a timestamp that sorts differently from the nonce.
C33_Witness ==
    /\ crypt # Nil /\ crypt.back # Nil
    /\ crypt.op = "EncryptResponse"
    /\ crypt.reply = BuildStreamReply(2, <<"a">>, TRUE)
    /\ crypt.ts = <<3>> /\ crypt.nonce = <<1, 3>>
    /\ Deref(crypt.back) = Ptr([MsgType |-> "stream", StreamID |-> 2])

\* ---------------------------------------------------------------------
\* Two requests carrying the same message.  The platform repeats the
\* callback of "m1" and the HTTP server runs each request on a goroutine of
\* its own, so two handlePost calls can be inside Initial together.  The
\* bot's pipeline closes its channel without sending; the model follows the
\* channel of one Trigger call, so a second call of Pipeline.Trigger waits
\* at its call site.
DuplicateStep(p) ==
    \/ HandlePost(p, "text", 0, "m1")
    \/ PostCleanup(p)
    \/ PostDispatch(p)
    \/ CreateOrGet(p)
    \/ InitialSetUpdate(p) \/ SetUpdate(p)
    \/ InitialTriggerOf(p, {ClosedPipeline})
    \/ InitialClosed(p)
    \/ BotMarkFinishedGet(p)
    \/ MarkFinished(p)
    \/ InitialReply(p)

NextDuplicate == TriggerClose \/ \E p \in Threads : DuplicateStep(p)

SpecDuplicate == Init /\ [][NextDuplicate]_vars

\* The process is in, or has returned from, an Initial callback of msgID
\* whose CreateOrGet call has returned.
InInitial(p, msgID) ==
    /\ fr[p].op = "Initial" /\ fr[p].msg = msgID
    /\ pc[p] \notin {"postCleanup", "postDispatch", "cogGet", "cogTouch", "cogNew", "cogInsert"}
    /\ fr[p].err \notin {"normalize", "adapter not configured"}

\* C34: of the Initial callbacks that carry the same non-empty msg id while
\* its session stays live, one after another or at the same time, at most one
\* obtains isNew = true (and so calls Pipeline.Trigger), and all of them use
\* the same stream id.
C34_TriggeredAtMostOnce ==
    \A p, q \in Threads : \A m \in MsgIDs :
       (p # q /\ InInitial(p, m) /\ InInitial(q, m)) =>
          /\ ~(fr[p].isNew /\ fr[q].isNew)
          /\ fr[p].sp = fr[q].sp

\* ---------------------------------------------------------------------
\* The final bit, as consumers see it.
\* Process p's Consume call on session s returns a chunk in this step.
ConsumeReturns(p, s) ==
    /\ pc[p] # "done" /\ pc'[p] = "done"
    /\ fr'[p].op = "Consume" /\ fr'[p].sp = s /\ fr'[p].ret # Nil

\* Process q holds a final chunk that a Consume call on session s returned.
HoldsFinal(q, s) ==
    /\ pc[q] = "done" /\ fr[q].op = "Consume" /\ fr[q].sp = s
    /\ fr[q].ret # Nil /\ Deref(fr[q].ret).IsFinal

\* C35: once a Consume call on a session has returned a chunk with IsFinal =
\* true, every chunk a later-returning Consume call on that session returns
\* has IsFinal = true, and a session's Finished flag never goes back to false.
C35_FinalIsSticky ==
    [][/\ \A p, q \in Threads : \A s \in StreamIDs :
            (p # q /\ HoldsFinal(q, s) /\ ConsumeReturns(p, s)) => Deref(fr'[p].ret).IsFinal
       /\ \A s \in StreamIDs : sess[s].Finished => sess'[s].Finished]_vars

\* What holds of the flag alone: Finished, once true, stays true.
C35_FinishedIsSticky ==
    [][\A s \in StreamIDs : sess[s].Finished => sess'[s].Finished]_vars

\* ---------------------------------------------------------------------
\* C36: in the sequence of chunks Manager.Trigger sends, the chunk with
\* IsFinal = true is the last one: no text chunk the command writes and no
\* execution-error chunk follows it, also when the command called
\* SetResponsePayload or SetNoResponse before.
C36_FinalIsLast ==
    \A i \in 1..Len(emitted) : emitted[i].IsFinal => i = Len(emitted)

\* What holds of every sequence: a chunk that follows the final chunk is a
\* non-final one, a text the command wrote or the execution error.
C36_OnlyTextAfterFinal ==
    \A i, j \in 1..Len(emitted) :
       (emitted[i].IsFinal /\ i < j) => (~emitted[j].IsFinal /\ emitted[j].Payload = NoPayload)

\* ---------------------------------------------------------------------
\* The calls on a stream id no session has.
\* One process calls the manager on stream ids that have no live session:
\* the empty id, an id never created, and the id of the session once Cleanup
\* has removed it.  The other process works on the session that exists,
\* lets time pass and cleans up.
Owner == "t2"

AbsentCalls(p) ==
    \E s \in StreamIDs \cup {0} :
       /\ getSession(s) = 0
       /\ \/ \E c \in TextChunks : CallPublish(p, s, c, MaxAppends)
          \/ \E c \in Contents : CallAccumulate(p, s, c, MaxAppends)
          \/ CallConsume(p, s)
          \/ CallMarkFinished(p, s)
          \/ \E u \in Updates : CallSetUpdate(p, s, u)
          \/ CallGetUpdate(p, s)

OwnerCalls(p) ==
    \/ \E c \in TextChunks : CallPublish(p, 1, c, MaxAppends)
    \/ \E u \in Updates : CallSetUpdate(p, 1, u)
    \/ CallGetUpdate(p, 1)
    \/ CallCleanup(p)

NextAbsent ==
    \/ AbsentCalls(Caller)
    \/ OwnerCalls(Owner)
    \/ Publish(Owner) \/ SetUpdate(Owner) \/ GetUpdate(Owner) \/ Cleanup(Owner)
    \/ Tick

SpecAbsent == InitSession /\ [][NextAbsent]_vars

\* What a call that found no session returned: false, nil, the zero Update.
ReturnedNothing(f) ==
    /\ f.op \in {"Publish", "Accumulate"} => ~f.ok
    /\ f.op = "Consume" => f.ret = Nil /\ ~f.timedOut
    /\ f.op = "GetUpdate" => f.update = Ptr(ZeroUpdate)

\* C37: a call of Publish, Accumulate, Consume, MarkFinished, SetUpdate or
\* GetUpdate on a stream id that has no live session returns at once (false,
\* nil, the zero Update) and leaves the session map, the msg-id index and
\* every session as they were.
C37_AbsentStreamNoEffect ==
    [][(pc'[Caller] # pc[Caller] \/ fr'[Caller] # fr[Caller]) =>
          /\ pc'[Caller] = "done" /\ ReturnedNothing(fr'[Caller])
          /\ sessions' = sessions /\ msgIndex' = msgIndex /\ sess' = sess
          /\ fallback' = fallback]_vars

\* The session was removed by Cleanup with text in it, and a Consume on its
\* stream id returned nil.
C37_Witness ==
    /\ sessions = {} /\ sess[1].Accumulated # <<>> /\ sess[1].Update = "u1"
    /\ pc[Caller] = "done" /\ fr[Caller].op = "Consume" /\ fr[Caller].ret = Nil

\* ---------------------------------------------------------------------
\* Process p holds the chunk its last Consume call returned.
HoldsChunk(p) == pc[p] = "done" /\ fr[p].op = "Consume" /\ fr[p].ret # Nil

\* Another process than p takes this step.
StepOfOther(p) == \E q \in Threads \ {p} : pc'[q] # pc[q] \/ fr'[q] # fr[q]

\* C38: the chunk a Consume call returned is the caller's own: no step of a
\* later Publish, Accumulate, Consume or MarkFinished call of another process
\* changes its content or its IsFinal, whether Consume took it from the queue
\* or from the cached last chunk.
C38_ReturnedChunkIsOwn ==
    [][\A p \in Threads : (HoldsChunk(p) /\ StepOfOther(p)) => fr'[p].ret = fr[p].ret]_vars

\* What holds: the chunk a timed-out Consume returned is a clone that no
\* other call changes, and no call changes IsFinal of a returned chunk.
C38_CloneIsOwn ==
    [][\A p \in Threads : (HoldsChunk(p) /\ StepOfOther(p)) =>
          /\ fr[p].timedOut => fr'[p].ret = fr[p].ret
          /\ Deref(fr'[p].ret).IsFinal = Deref(fr[p].ret).IsFinal]_vars

\* ---------------------------------------------------------------------
\* The conversation key.  Two updates are executed as commands by a Manager
\* with a store: Trigger loads the values stored under the update's
\* conversation key into the ExecutionContext, and the command writes a
\* value of its own back under that key.
\* Length of a chat id and of a sender id.
MaxIdLen == 2
\* The characters of the ids: a letter and the colon.
IdChars == {"a", ":"}
Ids == UNION {[1..n -> IdChars] : n \in 0..MaxIdLen}
\* botcore.Update: the fields ConversationKey reads
KeyUpdates == [ChatID : Ids, SenderID : Ids]
Executions == 1..2

\* fmt.Sprintf("%s:%s", ctx.Update.ChatID, ctx.Update.SenderID)
ConversationKey(update) == update.ChatID \o <<":">> \o update.SenderID

\* The names a command saves values under; a map gives each name <<v>> when
\* it holds v under the name and <<>> when it has no such name.
ExecNames == {"last_command"}
NoValues == [n \in ExecNames |-> <<>>]

\* store.Load(convKey): the values stored under the key, none when absent
ExecLoadValues(store, convKey) ==
    IF \E r \in store : r.key = convKey
    THEN (CHOOSE r \in store : r.key = convKey).values ELSE NoValues

\* store.Save(key, values): nothing for an empty key or an empty map; else
\* merged := cloneValues(s.data[key]); for k, v := range values { merged[k] = v }
\* s.data[key] = merged
ExecSaveValues(store, key, values) ==
    IF key = <<>> \/ values = NoValues THEN store
    ELSE {r \in store : r.key # key}
         \cup {[key |-> key,
                 values |-> [n \in ExecNames |-> IF values[n] # <<>> THEN values[n]
                                                  ELSE ExecLoadValues(store, key)[n]]]}

InitKey ==
    /\ NewBot /\ NoParse /\ NoTrigger /\ NoCrypt
    /\ exec \in [update : [Executions -> KeyUpdates], state : {[i \in Executions |-> "none"]},
                  Values : {[i \in Executions |-> NoValues]}, store : {{}}]

\* convKey := execCtx.ConversationKey()
\* if values, err := m.store.Load(convKey); err == nil { execCtx.Values = values }
ExecLoad(i) ==
    /\ exec.state[i] = "none"
    /\ exec' = [exec EXCEPT !.state[i] = "loaded",
                            !.Values[i] = ExecLoadValues(exec.store, ConversationKey(exec.update[i]))]
    /\ UNCHANGED <<bot, crypt, tally, cmdVars, pipeVars, otherVars>>

\* key := ctx.ConversationKey()
\* ctx.Store.Save(key, command.ContextValues{"last_command": ...})
\* (the value names the pair it was saved for)
ExecSave(i) ==
    /\ exec.state[i] = "loaded"
    /\ exec' = [exec EXCEPT !.state[i] = "saved",
                            !.store = ExecSaveValues(exec.store, ConversationKey(exec.update[i]),
                                                     [n \in ExecNames |-> <<exec.update[i]>>])]
    /\ UNCHANGED <<bot, crypt, tally, cmdVars, pipeVars, otherVars>>

NextKey == \E i \in Executions : ExecLoad(i) \/ ExecSave(i)

SpecKey == InitKey /\ [][NextKey]_vars

\* C39: executions whose (chatID, senderID) pairs differ never share context:
\* ConversationKey maps different pairs to different keys, so the values an
\* execution finds loaded were saved for its own pair.
C39_PairsNeverShareContext ==
    exec # Nil =>
       \A i \in Executions :
          /\ \A n \in ExecNames :
                exec.Values[i][n] # <<>> => exec.Values[i][n] = <<exec.update[i]>>
          /\ \A j \in Executions :
                (/\ exec.state[i] # "none" /\ exec.state[j] # "none"
                 /\ exec.update[i] # exec.update[j]) =>
                   ConversationKey(exec.update[i]) # ConversationKey(exec.update[j])

\* What holds: pairs whose chat ids contain no colon get different keys
\* whenever they differ, and their executions never share context.
C39_ColonFreeChatIDs ==
    exec # Nil =>
       \A i, j \in Executions :
          (/\ \A k \in 1..Len(exec.update[i].ChatID) : exec.update[i].ChatID[k] # ":"
           /\ \A k \in 1..Len(exec.update[j].ChatID) : exec.update[j].ChatID[k] # ":"
           /\ exec.update[i] # exec.update[j]) =>
             /\ ConversationKey(exec.update[i]) # ConversationKey(exec.update[j])
             /\ \A n \in ExecNames : exec.Values[i][n] # <<exec.update[j]>>

\* ---------------------------------------------------------------------
\* Keeping a session alive.  One process accesses the session of InitSession
\* in every way that refreshes LastAccess (a CreateOrGet hit, Publish,
\* Accumulate, Consume, MarkFinished); the other creates sessions that nobody
\* accesses and calls Cleanup at any time, while time passes.
AccessCalls(p) ==
    \/ CallCreateOrGet(p, "m1", MaxCreateCalls)
    \/ \E f \in BOOLEAN : CallPublish(p, 1, StreamChunk(<<"a">>, f, NoPayload), MaxAppends)
    \/ CallAccumulate(p, 1, <<"b">>, MaxAppends)
    \/ CallConsume(p, 1)
    \/ CallMarkFinished(p, 1)

CleanerCalls(p) ==
    \/ CallCreateOrGet(p, "", MaxCreateCalls)
    \/ CallCleanup(p)

NextAccess ==
    \/ AccessCalls(Caller)
    \/ CreateOrGet(Caller) \/ Publish(Caller) \/ Accumulate(Caller) \/ Consume(Caller)
    \/ MarkFinished(Caller)
    \/ CleanerCalls(Owner)
    \/ CreateOrGet(Owner) \/ Cleanup(Owner)
    \/ Tick

SpecAccess == InitSession /\ [][NextAccess]_vars

\* Where a process is when its call is about to refresh the session: the
\* touch of a CreateOrGet hit and of Consume, the locked sections of Publish
\* and Accumulate, setFinished.
AccessSteps == {"cogTouch", "pubLock", "accLock", "conTouch", "conUpdate", "conTimeout", "mfSet"}

\* C40: every access (CreateOrGet hit, Publish, Accumulate, Consume,
\* MarkFinished) sets the session's LastAccess to the current time, and
\* Cleanup removes a session only when its last access lies more than TTL
\* back: a session that is accessed at intervals of at most TTL is never
\* removed, however the Cleanup calls interleave with the accesses.
C40_AccessedSessionStaysLive ==
    [][/\ \A p \in Threads :
            (pc[p] \in AccessSteps /\ pc'[p] # pc[p]) => sess'[fr[p].sp].LastAccess = now
       /\ \A s \in sessions : s \notin sessions' => now - sess[s].LastAccess > TTL]_vars

\* A Cleanup that ran when more than TTL had passed removed a session nobody
\* accessed and spared the session that was accessed in between.
C40_Witness ==
    /\ now > TTL /\ 1 \in sessions /\ now - sess[1].LastAccess <= TTL
    /\ nextID > 2 /\ 2 \notin sessions
    /\ \E p \in Threads : pc[p] = "done" /\ fr[p].op = "Cleanup"

====
